---- MODULE Spec2Model ----
(***************************************************************************)
(* A model of the windowed cumulative analysis pipeline of MessageAnalyzer: *)
(*   - the token-budgeted chunker  (_create_chunks, llm_analyzer.py and     *)
(*     stage2_llm_analyzer.py, the two bodies are the same),                *)
(*   - the response validator      (validate_metrics),                      *)
(*   - the weekly retry loop       (analyze_conversation_weekly).           *)
(* Each component has its own specification over the shared variables; the  *)
(* variables of the other components stay at their idle values.             *)
(***************************************************************************)
EXTENDS Integers, Sequences, FiniteSets, TLC

VARIABLES
    \* _create_chunks
    messages,        \* the input list; a message is the length of its text, 0 = no text
    chunk_size,      \* parameter chunk_size
    overlap,         \* parameter overlap
    i,               \* the cursor of the while loop (0-based, as in the code)
    chunks,          \* the list of chunks; a chunk is the list of the 0-based
                     \* positions of the message objects appended to it
    cpc,             \* "idle" | "loop" | "done"
    \* validate_metrics
    response_text,   \* the argument: what the checks of validate_metrics read of the text
    validation,      \* the dict validate_metrics returns
    vpc,             \* "idle" | "call" | "done"
    \* analyze_conversation_weekly
    wk_messages,     \* the argument messages; a message is the day of its 'date'
    weeks,           \* the dict of group_messages_by_week: week number -> positions
    week_pos,        \* how many keys of sorted(weeks.keys()) the for loop has taken
    week_num,        \* the loop variable week_num
    prompt,          \* the user prompt built for the week
    retry_count,
    analysis,        \* <<>> for None, else <<the dict of parse_weekly_response>>
    prompt_versions,
    meta_llm_refinement,
    all_analyses,
    historical_summary,
    progress_file,   \* the JSON document readable at incremental_save_path: <<>> for
                     \* no file, an empty file or a cut-short one, else <<the saved dict>>
    progress_exists, \* incremental_file.exists(): the progress file is on disk
    output_file,     \* the JSON document readable at output_file of main: <<>> for no
                     \* file, an empty file or a cut-short one, else <<the saved dict>>
    restarts,        \* how many times main was run again after an interruption
    chat_calls,      \* history: analysis inference calls issued for the current week
    refine_calls,    \* history: meta-refinement inference calls issued for the current week
    refine_log,      \* history: the calls of refine_prompt_with_llm for the current week,
                     \* each with its arguments and what it returned
    chat_log,        \* history: the texts ollama.chat returned for the current week
    wpc,             \* "idle" | "for" | "while" | "after" | "dump" | "returned" |
                     \* "raised" | "crashed" | "final dump" | "final closed" | "done"
    \* Stage2LLMAnalyzer.analyze_conversation and its CumulativeSummaryManager
    chunk_summaries, \* self.summary_manager.chunk_summaries
    fresh_summaries, \* history: the chunk_summaries of an analyzer made for this call
    n_chunks,        \* len(chunks)
    chunk_idx,       \* the loop variable chunk_idx; chunk_id = chunk_idx + 1
    previous_summary, \* what get_compressed_summary gave for the chunk
    model_pos,       \* the position in self.models of the model at work, 0 for none
    attempt,         \* the loop variable of _analyze_chunk_with_model
    results,         \* the dict results: model name -> list of analyses
    calls,           \* how many times analyze_conversation was called on the analyzer
    pair_log,        \* history: the latest call of _analyze_chunk_with_model: its
                     \* arguments, the response of every inference call, what it returned
    spc,             \* "idle" | "for" | "models" | "returned" | "raised" |
                     \* "summary" | "summary done" | "summary raised"
    \* LLMAnalyzer.analyze_conversation
    chunk_data,      \* the list chunk_data: one dict per chunk with dialogue text
    all_results,     \* what _batch_analyze_dialogues returned
    aggregated,      \* <<>>, or <<the dict analyze_conversation returns>>
    apc,             \* "idle" | "batch" | "aggregate" | "returned" | "raised"
    \* create_chunks of preview_stage1_inputs.py, on the arguments of _create_chunks
    preview_i,       \* its cursor i
    preview_chunks,  \* its list chunks
    ppc,             \* "idle" | "loop" | "done"
    \* main of run_stage2_dual.py and its two workers
    worker_pc,       \* future -> "idle" | "running" | "analyzed" | "opened" |
                     \* "returned" | "raised": where run_single_model is
    worker_result,   \* future -> <<>>, or <<the dict analyze_conversation returned>>
    files,           \* the files of conversations_dir: name -> content
    dual_results,    \* the dict results of main
    dual_errors,     \* the dict errors of main
    collected,       \* the futures as_completed has yielded
    dpc              \* "idle" | "main" | "collecting" | "done"

chunkVars == <<messages, chunk_size, overlap, i, chunks, cpc>>

validateVars == <<response_text, validation, vpc>>

weeklyVars == <<wk_messages, weeks, week_pos, week_num, prompt, retry_count, analysis,
                prompt_versions, meta_llm_refinement, all_analyses, historical_summary,
                progress_file, progress_exists, output_file, restarts, chat_calls,
                refine_calls, refine_log, chat_log, wpc>>

stage2Vars == <<chunk_summaries, fresh_summaries, n_chunks, chunk_idx, previous_summary,
                model_pos, attempt, results, calls, pair_log, spc>>

stage1Vars == <<chunk_data, all_results, aggregated, apc>>

previewVars == <<preview_i, preview_chunks, ppc>>

dualVars == <<worker_pc, worker_result, files, dual_results, dual_errors, collected, dpc>>

vars == <<chunkVars, validateVars, weeklyVars, stage2Vars, stage1Vars, previewVars, dualVars>>

\* the variables a component leaves alone
notChunkVars == <<validateVars, weeklyVars, stage2Vars, stage1Vars, previewVars, dualVars>>

notValidateVars == <<chunkVars, weeklyVars, stage2Vars, stage1Vars, previewVars, dualVars>>

notWeeklyVars == <<chunkVars, validateVars, stage2Vars, stage1Vars, previewVars, dualVars>>

notStage2Vars == <<chunkVars, validateVars, weeklyVars, stage1Vars, previewVars, dualVars>>

notStage1Vars == <<chunkVars, validateVars, weeklyVars, stage2Vars, previewVars, dualVars>>

notDualVars == <<chunkVars, validateVars, weeklyVars, stage2Vars, stage1Vars, previewVars>>

notPreviewVars == <<chunkVars, validateVars, weeklyVars, stage2Vars, stage1Vars, dualVars>>

\* ---------------------------------------------------------------- bounds

\* longest message list given to _create_chunks
MaxMsgs == 4

\* text lengths of the messages (0: the message has no text)
TextLens == {0, 4, 20, 60}

\* values of the chunk_size parameter (token budget)
ChunkSizes == {5, 12, 25}

\* values of the overlap parameter (token budget of the overlap)
Overlaps == {0, 6, 16, 30}

\* ---------------------------------------------------------------- helpers

Max(a, b) == IF a >= b THEN a ELSE b

Range(s) == {s[k] : k \in 1..Len(s)}

SeqsUpTo(S, n) == UNION {[1..k -> S] : k \in 0..n}

RECURSIVE SumSeq(_)
SumSeq(s) == IF s = <<>> THEN 0 ELSE Head(s) + SumSeq(Tail(s))

\* ---------------------------------------------------------------- validate_metrics

\* What validate_metrics reads of a response text:
\*   sections  - the required section names that occur in the text (`section in response_text`)
\*   blocks    - the speaker blocks of the text, in text order; a block is a header
\*               "YOU:" or "THEM:", then at most one line "Positive: <score>/100" and
\*               at most one line "Overall Tone: <label>"
\*   citations - the number of matches of \[\d{4}-\d{2}-\d{2}
\*   academic  - whether References:|et al\.|Ekman|Russell|Frijda occurs

\* required_sections, in the order of the list
RequiredSections == <<"SENTIMENT SCORES", "PERSONALITY TRAITS", "PSYCHOLOGICAL TRAITS",
                      "EMOTIONAL STATES", "ARCHETYPE DISTRIBUTION",
                      "COMMUNICATION METRICS", "RELATIONSHIP EVOLUTION">>

\* most section names a response lacks
MaxMissing == 2

\* a block without a "Positive: n/100" line that \d+ matches
NoScore == -1

\* a score written with more digits than int() converts (more than
\* sys.int_max_str_digits = 4300 digits): int(group(1)) raises ValueError for it
TooManyDigits == 1000000

\* the scores written in "Positive: <score>/100"
Scores == {20, 55, 85, 150, TooManyDigits}

\* a block without an "Overall Tone:" line that ([\w\s]+?)(?:\n|$) matches
NoTone == "-"

\* the labels written after "Overall Tone:"
Tones == {"POSITIVE", "NEGATIVE", "NEUTRAL", "very positive"}

Speakers == {"YOU", "THEM"}

Blocks == [who : Speakers, score : Scores \cup {NoScore}, tone : Tones \cup {NoTone}]

\* the numbers of speaker blocks of a response
BlockCounts == {0, 1, 2}

\* the numbers of citations of a response
CitationCounts == {0, 2, 3}

\* the section names of a response: at most MaxMissing are missing, or all are
SectionSets == {ss \in SUBSET Range(RequiredSections) :
                    Cardinality(Range(RequiredSections) \ ss) <= MaxMissing} \cup {{}}

Responses == [sections : SectionSets,
              blocks : UNION {[1..n -> Blocks] : n \in BlockCounts},
              citations : CitationCounts,
              academic : BOOLEAN]

\* the text of a block as the tokens the regular expressions look for
BlockTokens(b) ==
    <<[kind |-> "header", who |-> b.who, score |-> NoScore, tone |-> NoTone]>>
    \o (IF b.score # NoScore
        THEN <<[kind |-> "positive", who |-> b.who, score |-> b.score, tone |-> NoTone]>>
        ELSE <<>>)
    \o (IF b.tone # NoTone
        THEN <<[kind |-> "tone", who |-> b.who, score |-> NoScore, tone |-> b.tone]>>
        ELSE <<>>)

RECURSIVE TextTokens(_)
TextTokens(blocks) ==
    IF blocks = <<>> THEN <<>> ELSE BlockTokens(Head(blocks)) \o TextTokens(Tail(blocks))

\* the first position after `from` of a token that is of kind `kind` (and, for a
\* header, of speaker `who`), 0 when there is none
FirstAfter(toks, from, kind, who) ==
    LET hits == {k \in (from + 1)..Len(toks) :
                    toks[k].kind = kind /\ (kind = "header" => toks[k].who = who)}
    IN IF hits = {} THEN 0 ELSE CHOOSE k \in hits : \A h \in hits : k <= h

\* re.search(r'(?:\*\*)?YOU(?:\*\*)?:.*?Positive:\s*(\d+)/100', response_text, re.DOTALL)
\* (and the same for THEM): the first "Positive: n/100" after the first header of
\* the speaker, whoever's block it stands in; int(group(1)), or NoScore for no match
SearchSentiment(toks, who) ==
    LET h == FirstAfter(toks, 0, "header", who)
        p == IF h = 0 THEN 0 ELSE FirstAfter(toks, h, "positive", who)
    IN IF p = 0 THEN NoScore ELSE toks[p].score

\* re.search(r'Overall Tone:\s*([\w\s]+?)(?:\n|$)', response_text): the first
\* "Overall Tone:" line of the text
SearchYouTone(toks) ==
    LET t == FirstAfter(toks, 0, "tone", "YOU")
    IN IF t = 0 THEN NoTone ELSE toks[t].tone

\* re.search(r'THEM.*?Overall Tone:\s*([\w\s]+?)(?:\n|$)', response_text, re.DOTALL):
\* the first "Overall Tone:" line after the first "THEM"
SearchThemTone(toks) ==
    LET h == FirstAfter(toks, 0, "header", "THEM")
        t == IF h = 0 THEN 0 ELSE FirstAfter(toks, h, "tone", "THEM")
    IN IF t = 0 THEN NoTone ELSE toks[t].tone

\* group(1).strip().upper() on the labels of Tones
Upper(label) ==
    CASE label = "very positive" -> "VERY POSITIVE"
      [] OTHER -> label

PositiveLabels == {"POSITIVE", "VERY POSITIVE"}

NegativeLabels == {"NEGATIVE", "VERY NEGATIVE"}

\* the thresholds of the tone rule
HighThreshold == 70

LowThreshold == 40

\* validation['errors'].append(...); validation['is_valid'] = False
AddError_KeepValid(v, msg, about) ==
    [v EXCEPT !.errors = Append(@, [msg |-> msg, about |-> about])]

AddError(v, msg, about) ==
    [v EXCEPT !.errors = Append(@, [msg |-> msg, about |-> about]), !.is_valid = FALSE]

\* validation['warnings'].append(...)
AddWarning_Invalidates(v, msg) ==
    [v EXCEPT !.warnings = Append(@, msg), !.is_valid = FALSE]

AddWarning(v, msg) == [v EXCEPT !.warnings = Append(@, msg)]

\* `for section in required_sections`, from position k of the list on
RequiredSections_SkipLast(k) == k > Len(RequiredSections) - 1

SectionsChecked(k) == k > Len(RequiredSections)

RECURSIVE CheckSections(_, _, _)
CheckSections(v, text, k) ==
    IF SectionsChecked(k) THEN v
    ELSE CheckSections(IF RequiredSections[k] \notin text.sections
                       THEN AddError(v, "Missing required section", RequiredSections[k])
                       ELSE v,
                       text, k + 1)

\* the two `if not ..._sentiment` tests
CheckParse(v, you_sentiment, them_sentiment) ==
    LET v1 == IF you_sentiment = NoScore
              THEN AddError(v, "Could not parse sentiment scores", "YOU") ELSE v
    IN IF them_sentiment = NoScore
       THEN AddError(v1, "Could not parse sentiment scores", "THEM") ELSE v1

\* `if len(citations) < 3` and the academic references test
MinCitations == 3

CheckCitations(v, text) ==
    LET v1 == IF text.citations < MinCitations
              THEN AddWarning(v, "Too few citations") ELSE v
    IN IF text.academic
       THEN AddWarning(v1, "Found possible academic references") ELSE v1

\* the if/elif on one speaker's score and tone; tone = NoTone is `if you_tone:` failing
CheckTone(v, who, pos, tone_match) ==
    IF tone_match = NoTone THEN v
    ELSE LET tone == Upper(tone_match)
         IN IF pos >= HighThreshold /\ tone \notin PositiveLabels
            THEN AddError(v, "score suggests POSITIVE but tone differs", who)
            ELSE IF pos <= LowThreshold /\ tone \notin NegativeLabels
                 THEN AddError(v, "score suggests NEGATIVE but tone differs", who)
                 ELSE v

validate_metrics(text) ==
    LET toks == TextTokens(text.blocks)
        you_sentiment == SearchSentiment(toks, "YOU")
        them_sentiment == SearchSentiment(toks, "THEM")
        v0 == [is_valid |-> TRUE, errors |-> <<>>, warnings |-> <<>>]
        v1 == CheckSections(v0, text, 1)
        v2 == CheckParse(v1, you_sentiment, them_sentiment)
        v3 == CheckCitations(v2, text)
    IN IF you_sentiment # NoScore /\ them_sentiment # NoScore
       THEN CheckTone(CheckTone(v3, "YOU", you_sentiment, SearchYouTone(toks)),
                      "THEM", them_sentiment, SearchThemTone(toks))
       ELSE v3

NoValidation == [is_valid |-> TRUE, errors |-> <<>>, warnings |-> <<>>]

NoResponse == [sections |-> {}, blocks |-> <<>>, citations |-> 0, academic |-> FALSE]

\* int(you_sentiment.group(1)) / int(them_sentiment.group(1)), reached when both
\* searches match: ValueError leaves validate_metrics, nothing catches it
IntRaises(score) == score = TooManyDigits

ValidateRaises(text) ==
    LET toks == TextTokens(text.blocks)
        you_sentiment == SearchSentiment(toks, "YOU")
        them_sentiment == SearchSentiment(toks, "THEM")
    IN /\ you_sentiment # NoScore
       /\ them_sentiment # NoScore
       /\ (IntRaises(you_sentiment) \/ IntRaises(them_sentiment))

\* the call of validate_metrics, to the exception leaving it: the local
\* validation dictionary is lost
ValidateMetricsRaises ==
    /\ vpc = "call"
    /\ ValidateRaises(response_text)
    /\ vpc' = "raised"
    /\ UNCHANGED <<response_text, validation>>
    /\ UNCHANGED notValidateVars

\* the call of validate_metrics, to its return
ValidateMetrics ==
    /\ vpc = "call"
    /\ ~ValidateRaises(response_text)
    /\ validation' = validate_metrics(response_text)
    /\ vpc' = "done"
    /\ UNCHANGED response_text
    /\ UNCHANGED notValidateVars

NextValidate == ValidateMetrics \/ ValidateMetricsRaises

\* ---------------------------------------------------------------- _create_chunks

\* msg.get('text'): truthy exactly for a non-empty text
HasText(len) == len > 0

\* msg_tokens = (len(msg['text']) + 20) // 4
msg_tokens(len) == (len + 20) \div 4

\* the message at 0-based position j
MsgAt(msgs, j) == msgs[j + 1]

\* the token estimate the loop adds for the message at position j
TokensAt(msgs, j) == IF HasText(MsgAt(msgs, j)) THEN msg_tokens(MsgAt(msgs, j)) ELSE 0

\* `if token_count + msg_tokens > chunk_size and len(chunk) > 0: break`
WouldBreak_DropOversized(token_count, tokens, size, chunk) ==
    token_count + tokens > size

WouldBreak(token_count, tokens, size, chunk) ==
    token_count + tokens > size /\ Len(chunk) > 0

\* the inner for loop `for j in range(i, len(messages))`, from position j on,
\* with the chunk and token_count built so far
RECURSIVE BuildChunk(_, _, _, _, _)
BuildChunk(msgs, j, size, chunk, token_count) ==
    IF j >= Len(msgs) THEN chunk
    ELSE IF HasText(MsgAt(msgs, j))
         THEN IF WouldBreak(token_count, msg_tokens(MsgAt(msgs, j)), size, chunk)
              THEN chunk
              ELSE BuildChunk(msgs, j + 1, size, Append(chunk, j),
                              token_count + msg_tokens(MsgAt(msgs, j)))
         ELSE BuildChunk(msgs, j + 1, size, Append(chunk, j), token_count)

\* the loop `for msg in reversed(chunk)`: k is the 1-based position in chunk of
\* the message looked at, walking down from Len(chunk)
RECURSIVE OverlapMsgs(_, _, _, _, _, _)
OverlapMsgs(msgs, chunk, k, ovl, overlap_tokens, overlap_msgs) ==
    IF k < 1 THEN overlap_msgs
    ELSE IF HasText(MsgAt(msgs, chunk[k]))
         THEN IF overlap_tokens + msg_tokens(MsgAt(msgs, chunk[k])) > ovl
              THEN overlap_msgs
              ELSE OverlapMsgs(msgs, chunk, k - 1, ovl,
                               overlap_tokens + msg_tokens(MsgAt(msgs, chunk[k])),
                               overlap_msgs + 1)
         ELSE OverlapMsgs(msgs, chunk, k - 1, ovl, overlap_tokens, overlap_msgs)

\* `i += max(1, len(chunk) - overlap_msgs)`
Advance_NoFloor(chunk_len, overlap_msgs) == chunk_len - overlap_msgs

Advance_SkipOne(chunk_len, overlap_msgs) == Max(1, chunk_len - overlap_msgs) + 1

Advance(chunk_len, overlap_msgs) == Max(1, chunk_len - overlap_msgs)

\* one iteration of `while i < len(messages)`
CreateChunksStep ==
    /\ cpc = "loop"
    /\ i < Len(messages)
    /\ LET chunk == BuildChunk(messages, i, chunk_size, <<>>, 0)
           overlap_msgs == OverlapMsgs(messages, chunk, Len(chunk), overlap, 0, 0)
       IN IF chunk # <<>>
          THEN /\ chunks' = Append(chunks, chunk)
               /\ i' = i + Advance(Len(chunk), overlap_msgs)
          ELSE /\ chunks' = chunks
               /\ i' = i + 1
    /\ UNCHANGED <<messages, chunk_size, overlap, cpc>>
    /\ UNCHANGED notChunkVars

\* `if not messages: return []`, and `return chunks` when the loop condition fails
CreateChunksReturn ==
    /\ cpc = "loop"
    /\ i >= Len(messages)
    /\ cpc' = "done"
    /\ UNCHANGED <<messages, chunk_size, overlap, i, chunks>>
    /\ UNCHANGED notChunkVars

NextChunks == CreateChunksStep \/ CreateChunksReturn

\* ---------------------------------------------------------------- create_chunks (preview_stage1_inputs.py)

\* `token_count + msg_tokens > chunk_size * 100`: the budget of a chunk
PreviewBudget(size) == size * 100

\* the inner for loop of create_chunks from position j on: the loop of
\* _create_chunks with the budget chunk_size * 100
PreviewBuildChunk(msgs, j, size) == BuildChunk(msgs, j, PreviewBudget(size), <<>>, 0)

\* `overlap_msgs = min(overlap, len(chunk))`
PreviewOverlapMsgs(ovl, chunk) == IF ovl <= Len(chunk) THEN ovl ELSE Len(chunk)

\* one iteration of `while i < len(messages)` of create_chunks
PreviewStep ==
    /\ ppc = "loop"
    /\ preview_i < Len(messages)
    /\ LET chunk == PreviewBuildChunk(messages, preview_i, chunk_size)
           overlap_msgs == PreviewOverlapMsgs(overlap, chunk)
       IN IF chunk # <<>>
          THEN /\ preview_chunks' = Append(preview_chunks, chunk)
               /\ preview_i' = preview_i + Max(1, Len(chunk) - overlap_msgs)
          ELSE /\ preview_chunks' = preview_chunks
               /\ preview_i' = preview_i + 1
    /\ UNCHANGED ppc
    /\ UNCHANGED notPreviewVars

\* `if not messages: return []`, and `return chunks` when the loop condition fails
PreviewReturn ==
    /\ ppc = "loop"
    /\ preview_i >= Len(messages)
    /\ ppc' = "done"
    /\ UNCHANGED <<preview_i, preview_chunks>>
    /\ UNCHANGED notPreviewVars

\* the two chunkers at work on the same arguments
NextPreview == CreateChunksStep \/ CreateChunksReturn \/ PreviewStep \/ PreviewReturn

\* `CHUNK_SIZE = 15` and `OVERLAP = 5` of add_llm_analysis.py, which the preview
\* passes too
CHUNK_SIZE == 15

OVERLAP == 5

\* the parameter defaults of _create_chunks
default_chunk_size == 450

default_overlap == 45

\* the <<chunk_size, overlap>> the chunkers are called with
ScriptArguments == {<<CHUNK_SIZE, OVERLAP>>, <<default_chunk_size, default_overlap>>}

\* longest message list the scripts load
MaxScriptMsgs == 17

\* longest repeated pattern of text lengths in such a list
MaxPattern == 2

\* the message lists of the scripts: a pattern of text lengths, repeated
ScriptMessages ==
    {[k \in 1..n |-> pat[((k - 1) % Len(pat)) + 1]] :
        pat \in SeqsUpTo(TextLens, MaxPattern) \ {<<>>}, n \in 0..MaxScriptMsgs}

\* ---------------------------------------------------------------- analyze_conversation_weekly

\* most messages of a conversation given to analyze_conversation_weekly
MaxWeeklyMsgs == 2

\* the days of the messages' dates
Days == {0, 22}

\* `max_retries = 5`
max_retries == 5

\* the parameter default `max_context_weeks: int = 4`
max_context_weeks == 4

RECURSIVE SortedSeq(_)
SortedSeq(S) ==
    IF S = {} THEN <<>>
    ELSE LET m == CHOOSE x \in S : \A y \in S : x <= y
         IN <<m>> \o SortedSeq(S \ {m})

\* week_number = (msg_date - first_date).days // 7, first_date the date of messages[0]
WeekNumber(msgs, k) == (msgs[k] - msgs[1]) \div 7

\* group_messages_by_week: {} for no message, else week number -> its messages, in order
group_messages_by_week(msgs) ==
    [w \in {WeekNumber(msgs, k) : k \in 1..Len(msgs)} |->
        SelectSeq([k \in 1..Len(msgs) |-> k], LAMBDA k : WeekNumber(msgs, k) = w)]

SortedWeeks(ws) == SortedSeq(DOMAIN ws)

\* the texts the inference call returns in this model: one that validate_metrics
\* accepts and one with a missing section and a score/label mismatch
GoodResponse ==
    [sections |-> Range(RequiredSections),
     blocks |-> <<[who |-> "YOU", score |-> 85, tone |-> "POSITIVE"],
                  [who |-> "THEM", score |-> 55, tone |-> "NEUTRAL"]>>,
     citations |-> 3, academic |-> FALSE]

BadResponse ==
    [sections |-> Range(RequiredSections) \ {"EMOTIONAL STATES"},
     blocks |-> <<[who |-> "YOU", score |-> 20, tone |-> "POSITIVE"],
                  [who |-> "THEM", score |-> 55, tone |-> "NEUTRAL"]>>,
     citations |-> 2, academic |-> FALSE]

WeeklyResponses == {GoodResponse, BadResponse}

\* what refine_prompt_with_llm returns: the instruction of the model, or the fixed
\* fallback of its except branch
Refinements == {"meta-llm instruction", "fallback instruction"}

NoRefinement == "None"

NoWeek == -100

\* parse_weekly_response: the dict it returns
parse_weekly_response(text, week_number) ==
    [week_number |-> week_number,
     raw_analysis |-> text,
     validation |-> validate_metrics(text)]

\* build_weekly_prompt: the parts of the prompt that vary
build_weekly_prompt(week_number, historical) ==
    [week |-> week_number + 1, historical_context |-> historical]

\* compress_historical_weeks(week_analyses): the text names only their number
compress_historical_weeks(week_analyses) ==
    <<[kind |-> "compressed", weeks |-> Len(week_analyses)]>>

\* the system prompt of an attempt, as the list of its parts
SystemPrompt(retries, refinement) ==
    IF retries = 0 THEN <<"base">>
    ELSE IF retries = 1 THEN <<"base", "strict format">>
    ELSE IF refinement # NoRefinement THEN <<"base", refinement>>
    ELSE <<"base">>

\* `if analysis and not analysis['validation']['is_valid']` of a second or later retry
NeedsRefinement_FromFirstRetry(retries, an) ==
    retries > 0 /\ an # <<>> /\ ~an[1].validation.is_valid

NeedsRefinement(retries, an) ==
    retries > 1 /\ an # <<>> /\ ~an[1].validation.is_valid

\* `while retry_count <= max_retries`
MayAttempt_Strict(retries) == retries < max_retries

MayAttempt(retries) == retries <= max_retries

\* `if retry_count < max_retries` after a failed validation
RetriesRemain_Always(retries) == TRUE

RetriesRemain(retries) == retries < max_retries

\* `all_analyses.append(analysis)`
AppendAnalysis_OnlyValid(analyses, an) ==
    IF an.validation.is_valid THEN Append(analyses, an) ELSE analyses

AppendAnalysis(analyses, an) == Append(analyses, an)

\* the head of `for week_num in sorted(weeks.keys())` with another week to take,
\* to the head of the while loop
ForNextWeek ==
    /\ wpc = "for"
    /\ week_pos < Len(SortedWeeks(weeks))
    /\ week_pos' = week_pos + 1
    /\ week_num' = SortedWeeks(weeks)[week_pos + 1]
    /\ prompt' = build_weekly_prompt(SortedWeeks(weeks)[week_pos + 1], historical_summary)
    /\ retry_count' = 0
    /\ analysis' = <<>>
    /\ prompt_versions' = <<>>
    /\ meta_llm_refinement' = NoRefinement
    /\ chat_calls' = 0
    /\ refine_calls' = 0
    /\ refine_log' = <<>>
    /\ chat_log' = <<>>
    /\ wpc' = "while"
    /\ UNCHANGED <<restarts, wk_messages, weeks, all_analyses, historical_summary, progress_file>>
    /\ UNCHANGED <<progress_exists, output_file>>
    /\ UNCHANGED notWeeklyVars

\* the for loop is exhausted: `return all_analyses`
ReturnAnalyses ==
    /\ wpc = "for"
    /\ week_pos >= Len(SortedWeeks(weeks))
    /\ wpc' = "returned"
    /\ UNCHANGED <<restarts, wk_messages, weeks, week_pos, week_num, prompt, retry_count, analysis,
                   prompt_versions, meta_llm_refinement, all_analyses, historical_summary,
                   progress_file, chat_calls, refine_calls, refine_log, chat_log>>
    /\ UNCHANGED <<progress_exists, output_file>>
    /\ UNCHANGED notWeeklyVars

\* the record appended to prompt_versions before the inference call
PromptVersion(retries, refinement) ==
    [attempt |-> retries + 1,
     system_prompt |-> SystemPrompt(retries, refinement),
     has_meta_refinement |-> refinement # NoRefinement,
     meta_refinement |-> refinement,
     answered |-> FALSE,
     validation_passed |-> FALSE,
     validation_errors |-> <<>>]

\* a call of refine_prompt_with_llm before attempt number `before`: its three
\* arguments and the instruction it returned
RefineCall(before, original_prompt, an, refined) ==
    [before_attempt |-> before,
     original_prompt |-> original_prompt,
     failed_output |-> an.raw_analysis,
     validation_errors |-> an.validation.errors,
     returned |-> refined]

\* the log after the refinement step of an iteration
LogRefinement(log, refine, retries, original_prompt, an, refined) ==
    IF refine THEN Append(log, RefineCall(retries + 1, original_prompt, an[1], refined))
    ELSE log

\* one iteration of the while loop in which ollama.chat returns `text`; `refined`
\* is what refine_prompt_with_llm returns when the iteration calls it. The loop
\* condition is tested on entry and again after `retry_count += 1`.
AttemptReturns ==
    /\ wpc = "while"
    /\ MayAttempt(retry_count)
    /\ \E text \in WeeklyResponses, refined \in Refinements :
         LET refine == NeedsRefinement(retry_count, analysis)
             refinement == IF refine THEN refined ELSE meta_llm_refinement
             parsed == parse_weekly_response(text, week_num)
             version == [PromptVersion(retry_count, refinement) EXCEPT
                            !.answered = TRUE,
                            !.validation_passed = parsed.validation.is_valid,
                            !.validation_errors = parsed.validation.errors]
         IN /\ meta_llm_refinement' = refinement
            /\ refine_calls' = IF refine THEN refine_calls + 1 ELSE refine_calls
            /\ refine_log' = LogRefinement(refine_log, refine, retry_count, prompt, analysis, refined)
            /\ chat_log' = Append(chat_log, text)
            /\ chat_calls' = chat_calls + 1
            /\ prompt_versions' = Append(prompt_versions, version)
            /\ analysis' = <<parsed>>
            /\ IF parsed.validation.is_valid
               THEN /\ wpc' = "after"
                    /\ retry_count' = retry_count
               ELSE IF RetriesRemain(retry_count)
                    THEN /\ retry_count' = retry_count + 1
                         /\ wpc' = IF MayAttempt(retry_count + 1) THEN "while" ELSE "after"
                    ELSE /\ wpc' = "after"
                         /\ retry_count' = retry_count
    /\ UNCHANGED <<restarts, wk_messages, weeks, week_pos, week_num, prompt, all_analyses,
                   historical_summary, progress_file>>
    /\ UNCHANGED <<progress_exists, output_file>>
    /\ UNCHANGED notWeeklyVars

\* one iteration of the while loop in which ollama.chat raises: nothing in
\* analyze_conversation_weekly catches it
AttemptRaises ==
    /\ wpc = "while"
    /\ MayAttempt(retry_count)
    /\ \E refined \in Refinements :
         LET refine == NeedsRefinement(retry_count, analysis)
             refinement == IF refine THEN refined ELSE meta_llm_refinement
         IN /\ meta_llm_refinement' = refinement
            /\ refine_calls' = IF refine THEN refine_calls + 1 ELSE refine_calls
            /\ refine_log' = LogRefinement(refine_log, refine, retry_count, prompt, analysis, refined)
            /\ prompt_versions' = Append(prompt_versions, PromptVersion(retry_count, refinement))
    /\ chat_calls' = chat_calls + 1
    /\ wpc' = "raised"
    /\ UNCHANGED <<restarts, wk_messages, weeks, week_pos, week_num, prompt, retry_count, analysis,
                   all_analyses, historical_summary, progress_file, chat_log>>
    /\ UNCHANGED <<progress_exists, output_file>>
    /\ UNCHANGED notWeeklyVars

\* analysis['performance'] = {...}
WithPerformance(an, retries, versions) ==
    [week_number |-> an.week_number,
     raw_analysis |-> an.raw_analysis,
     validation |-> an.validation,
     retry_count |-> retries,
     prompt_versions |-> versions,
     final_prompt_worked |-> an.validation.is_valid]

\* incremental_data, as json.dump writes it
IncrementalData_OnlyLatest(analyses, ws) ==
    [total_weeks |-> 1,
     total_weeks_planned |-> Cardinality(DOMAIN ws),
     weekly_analyses |-> <<analyses[Len(analyses)]>>]

IncrementalData(analyses, ws) ==
    [total_weeks |-> Len(analyses),
     total_weeks_planned |-> Cardinality(DOMAIN ws),
     weekly_analyses |-> analyses]

\* the update of historical_summary after a week
NextHistoricalSummary(historical, analyses, wn) ==
    IF wn + 1 >= max_context_weeks
    THEN compress_historical_weeks(SubSeq(analyses, 1, Len(analyses) - 1))
    ELSE Append(historical, [kind |-> "week", weeks |-> wn + 1])

\* after the while loop: the week's analysis is appended and, main always giving
\* incremental_save_path, `open(incremental_save_path, 'w')` truncates the file
FinishWeek ==
    /\ wpc = "after"
    /\ all_analyses' = AppendAnalysis(all_analyses,
                                      WithPerformance(analysis[1], retry_count, prompt_versions))
    /\ progress_file' = <<>>
    /\ wpc' = "dump"
    /\ UNCHANGED <<restarts, wk_messages, weeks, week_pos, week_num, prompt, retry_count, analysis,
                   prompt_versions, meta_llm_refinement, historical_summary, chat_calls,
                   refine_calls, refine_log, chat_log>>
    /\ progress_exists' = TRUE
    /\ UNCHANGED output_file
    /\ UNCHANGED notWeeklyVars

\* json.dump(incremental_data, f) and the end of the with block, then the
\* historical context is updated
SaveProgress ==
    /\ wpc = "dump"
    /\ progress_file' = <<IncrementalData(all_analyses, weeks)>>
    /\ historical_summary' = NextHistoricalSummary(historical_summary, all_analyses, week_num)
    /\ wpc' = "for"
    /\ UNCHANGED <<restarts, wk_messages, weeks, week_pos, week_num, prompt, retry_count, analysis,
                   prompt_versions, meta_llm_refinement, all_analyses, chat_calls, refine_calls, refine_log, chat_log>>
    /\ UNCHANGED <<progress_exists, output_file>>
    /\ UNCHANGED notWeeklyVars

NextWeekly ==
    ForNextWeek \/ ReturnAnalyses \/ AttemptReturns \/ AttemptRaises \/ FinishWeek
        \/ SaveProgress

\* most restarts of main after an interruption
MaxRestarts == 1

\* the process is killed while analyze_conversation_weekly runs; what is on disk stays
Crash ==
    /\ wpc \in {"for", "while", "after", "dump"}
    /\ wpc' = "crashed"
    /\ UNCHANGED <<restarts, wk_messages, weeks, week_pos, week_num, prompt, retry_count, analysis,
                   prompt_versions, meta_llm_refinement, all_analyses, historical_summary,
                   progress_file, chat_calls, refine_calls, refine_log, chat_log>>
    /\ UNCHANGED <<progress_exists, output_file>>
    /\ UNCHANGED notWeeklyVars

\* main is run again on the same conversation after a crash or an uncaught
\* exception: it sets the path of the progress file and calls
\* analyze_conversation_weekly, which begins with `all_analyses = []`; neither
\* reads the progress file
Restart ==
    /\ wpc \in {"crashed", "raised"}
    /\ restarts < MaxRestarts
    /\ restarts' = restarts + 1
    /\ weeks' = group_messages_by_week(wk_messages)
    /\ week_pos' = 0
    /\ week_num' = NoWeek
    /\ prompt' = build_weekly_prompt(NoWeek, <<>>)
    /\ retry_count' = 0
    /\ analysis' = <<>>
    /\ prompt_versions' = <<>>
    /\ meta_llm_refinement' = NoRefinement
    /\ all_analyses' = <<>>
    /\ historical_summary' = <<>>
    /\ chat_calls' = 0
    /\ refine_calls' = 0
    /\ refine_log' = <<>>
    /\ chat_log' = <<>>
    /\ wpc' = "for"
    /\ UNCHANGED <<wk_messages, progress_file>>
    /\ UNCHANGED <<progress_exists, output_file>>
    /\ UNCHANGED notWeeklyVars

NextWeeklyRestart == NextWeekly \/ Crash \/ Restart


\* ---------------------------------------------------------------- main of weekly_metrics_analyzer.py

\* output_data, as json.dump writes it
OutputData(analyses) == [total_weeks |-> Len(analyses), weekly_analyses |-> analyses]

\* analyze_conversation_weekly has returned: `open(output_file, 'w')` creates or
\* truncates the results file
OpenResults ==
    /\ wpc = "returned"
    /\ output_file' = <<>>
    /\ wpc' = "final dump"
    /\ UNCHANGED <<restarts, wk_messages, weeks, week_pos, week_num, prompt, retry_count, analysis,
                   prompt_versions, meta_llm_refinement, all_analyses, historical_summary,
                   progress_file, progress_exists, chat_calls, refine_calls, refine_log, chat_log>>
    /\ UNCHANGED notWeeklyVars

\* json.dump(output_data, f) and the end of the with block
DumpResults ==
    /\ wpc = "final dump"
    /\ output_file' = <<OutputData(all_analyses)>>
    /\ wpc' = "final closed"
    /\ UNCHANGED <<restarts, wk_messages, weeks, week_pos, week_num, prompt, retry_count, analysis,
                   prompt_versions, meta_llm_refinement, all_analyses, historical_summary,
                   progress_file, progress_exists, chat_calls, refine_calls, refine_log, chat_log>>
    /\ UNCHANGED notWeeklyVars

\* where main stands when it cleans up the progress file
MayCleanUp_BeforeDump(pc) == pc \in {"final dump", "final closed"}

MayCleanUp(pc) == pc = "final closed"

\* `if incremental_file.exists(): incremental_file.unlink()`, then the debug log
\* and the report, which touch neither file
CleanUp ==
    /\ MayCleanUp(wpc)
    /\ progress_exists' = FALSE
    /\ progress_file' = <<>>
    /\ wpc' = "done"
    /\ UNCHANGED <<restarts, wk_messages, weeks, week_pos, week_num, prompt, retry_count, analysis,
                   prompt_versions, meta_llm_refinement, all_analyses, historical_summary,
                   output_file, chat_calls, refine_calls, refine_log, chat_log>>
    /\ UNCHANGED notWeeklyVars

\* the process is killed while main writes its results; what is on disk stays
CrashInMain ==
    /\ wpc \in {"returned", "final dump", "final closed"}
    /\ wpc' = "crashed"
    /\ UNCHANGED <<restarts, wk_messages, weeks, week_pos, week_num, prompt, retry_count, analysis,
                   prompt_versions, meta_llm_refinement, all_analyses, historical_summary,
                   progress_file, progress_exists, output_file, chat_calls, refine_calls,
                   refine_log, chat_log>>
    /\ UNCHANGED notWeeklyVars

\* a run of main that may stop at any step
NextMain == NextWeekly \/ Crash \/ OpenResults \/ DumpResults \/ CleanUp \/ CrashInMain

\* ---------------------------------------------------------------- main of run_stage2_dual.py

\* the model names main submits, as their characters: "llama3.2" and "qwen2.5:7b"
ModelLlama == <<"l", "l", "a", "m", "a", "3", ".", "2">>

ModelQwen == <<"q", "w", "e", "n", "2", ".", "5", ":", "7", "b">>

\* the two futures executor.submit returns
future_llama == "future_llama"

future_qwen == "future_qwen"

Futures == {future_llama, future_qwen}

\* the argument model_name of the call of run_single_model a future runs
SubmittedModel(future) == IF future = future_llama THEN ModelLlama ELSE ModelQwen

\* str.replace(old, new) for an `old` of one character
Replace(name, old, new) == [k \in 1..Len(name) |-> IF name[k] = old THEN new ELSE name[k]]

\* `model_safe = model_name.replace(':', '_').replace('.', '_')`
model_safe(model_name) == Replace(Replace(model_name, ":", "_"), ".", "_")

\* `output_json = output_dir / f"{phone_number}_citation_{model_safe}.json"`; the
\* phone number and the directory are the same for both workers
output_json(model_name) == <<"phone_number", "_citation_">> \o model_safe(model_name) \o <<".json">>

\* the files of this model: the output files of the two workers
FileNames == {output_json(SubmittedModel(f)) : f \in Futures}

\* what a file holds: nothing (no such file), what an earlier run of the script
\* left, or what the worker `by` made of it: "empty" after open(.., 'w'),
\* "partial" when json.dump raised on the way, "complete" with `data` dumped
Absent == [by |-> "", state |-> "absent", data |-> <<>>]

Old == [by |-> "", state |-> "old", data |-> <<>>]

Written(future, state, data) == [by |-> future, state |-> state, data |-> data]

\* the values of len(analysis_text) in the dicts analyze_conversation returns
ResponseLengths == {0, 1200}

\* the dict CitationAnalyzer.analyze_conversation returns
CitationResult(model_name, len) == [model |-> model_name, response_length |-> len]

\* `d[key] = value` on a dict
SetItem(d, key, value) ==
    [k \in DOMAIN d \cup {key} |-> IF k = key THEN value ELSE d[k]]

\* the model the except branch of main names for a failed future
FailedModel_AlwaysLlama(future) == ModelLlama

FailedModel(future) == IF future = future_llama THEN ModelLlama ELSE ModelQwen

\* main submits run_single_model for the two models to the executor of two
\* workers and makes the dicts results and errors
SubmitBoth ==
    /\ dpc = "main"
    /\ worker_pc' = [f \in Futures |-> "running"]
    /\ dual_results' = <<>>
    /\ dual_errors' = <<>>
    /\ collected' = {}
    /\ dpc' = "collecting"
    /\ UNCHANGED <<worker_result, files>>
    /\ UNCHANGED notDualVars

\* a worker: analyzer.analyze_conversation returns its dict
WorkerAnalyzes(future) ==
    /\ worker_pc[future] = "running"
    /\ \E len \in ResponseLengths :
         worker_result' = [worker_result EXCEPT
                              ![future] = <<CitationResult(SubmittedModel(future), len)>>]
    /\ worker_pc' = [worker_pc EXCEPT ![future] = "analyzed"]
    /\ UNCHANGED <<files, dual_results, dual_errors, collected, dpc>>
    /\ UNCHANGED notDualVars

\* a worker: ollama.chat (or anything else in analyze_conversation) raises; the
\* executor stores the exception in the future
WorkerAnalysisRaises(future) ==
    /\ worker_pc[future] = "running"
    /\ worker_pc' = [worker_pc EXCEPT ![future] = "raised"]
    /\ UNCHANGED <<worker_result, files, dual_results, dual_errors, collected, dpc>>
    /\ UNCHANGED notDualVars

\* a worker: `open(output_json, 'w')` makes the file empty, or raises
WorkerOpens(future) ==
    /\ worker_pc[future] = "analyzed"
    /\ \/ /\ files' = [files EXCEPT ![output_json(SubmittedModel(future))] =
                                        Written(future, "empty", <<>>)]
          /\ worker_pc' = [worker_pc EXCEPT ![future] = "opened"]
       \/ /\ worker_pc' = [worker_pc EXCEPT ![future] = "raised"]
          /\ UNCHANGED files
    /\ UNCHANGED <<worker_result, dual_results, dual_errors, collected, dpc>>
    /\ UNCHANGED notDualVars

\* a worker: json.dump writes the results and the file is closed, then
\* `return model_name, results`; or the write raises and the file stays partial
WorkerDumps(future) ==
    /\ worker_pc[future] = "opened"
    /\ \/ /\ files' = [files EXCEPT ![output_json(SubmittedModel(future))] =
                                        Written(future, "complete", worker_result[future])]
          /\ worker_pc' = [worker_pc EXCEPT ![future] = "returned"]
       \/ /\ files' = [files EXCEPT ![output_json(SubmittedModel(future))] =
                                        Written(future, "partial", <<>>)]
          /\ worker_pc' = [worker_pc EXCEPT ![future] = "raised"]
    /\ UNCHANGED <<worker_result, dual_results, dual_errors, collected, dpc>>
    /\ UNCHANGED notDualVars

\* main: as_completed yields a finished future; future.result() gives the pair
\* (model_name, result) for results, or raises for the except branch and errors
CollectFuture(future) ==
    /\ dpc = "collecting"
    /\ future \notin collected
    /\ worker_pc[future] \in {"returned", "raised"}
    /\ IF worker_pc[future] = "returned"
       THEN /\ dual_results' = SetItem(dual_results, worker_result[future][1].model,
                                       worker_result[future][1])
            /\ UNCHANGED dual_errors
       ELSE /\ dual_errors' = SetItem(dual_errors, FailedModel(future), "str(e)")
            /\ UNCHANGED dual_results
    /\ collected' = collected \cup {future}
    /\ UNCHANGED <<worker_pc, worker_result, files, dpc>>
    /\ UNCHANGED notDualVars

\* main: as_completed is exhausted, the executor is shut down, the report printed
DualDone ==
    /\ dpc = "collecting"
    /\ collected = Futures
    /\ dpc' = "done"
    /\ UNCHANGED <<worker_pc, worker_result, files, dual_results, dual_errors, collected>>
    /\ UNCHANGED notDualVars

NextDual ==
    \/ SubmitBoth
    \/ \E future \in Futures :
          \/ WorkerAnalyzes(future)
          \/ WorkerAnalysisRaises(future)
          \/ WorkerOpens(future)
          \/ WorkerDumps(future)
          \/ CollectFuture(future)
    \/ DualDone

\* ---------------------------------------------------------------- CumulativeSummaryManager

\* What the summary methods read of an analysis (the parsed JSON of a response):
\*   cumulative_summary - the value of the key: absent, a text of `len`
\*                        characters, or a JSON number other than 0
\*   You                - <<>> for no 'You' key, else <<dimension -> trend>>, the
\*                        trend "absent" when the dimension or its 'trend' is missing
\* and what the prompt asks the model for besides and no summary method reads:
\*   Them               - the same structure as You, for the other speaker
NoNarrative == [kind |-> "absent", len |-> 0]

NumberNarrative == [kind |-> "number", len |-> 0]

Text(n) == [kind |-> "text", len |-> n]

Dimensions == <<"toxicity", "sentiment", "sarcasm">>

\* the analyses of this model
FullSummary ==
    [cumulative_summary |-> Text(300),
     You |-> <<[d \in Range(Dimensions) |-> "increasing"]>>,
     Them |-> <<[d \in Range(Dimensions) |->
                     IF d = "sentiment" THEN "stable" ELSE "decreasing"]>>]

ShortSummary ==
    [cumulative_summary |-> Text(120),
     You |-> <<[d \in Range(Dimensions) |->
                    CASE d = "toxicity" -> "stable"
                      [] d = "sentiment" -> "decreasing"
                      [] OTHER -> "absent"]>>,
     Them |-> <<[d \in Range(Dimensions) |-> "stable"]>>]

BareSummary == [cumulative_summary |-> NoNarrative, You |-> <<>>, Them |-> <<>>]

NumberSummary == [cumulative_summary |-> NumberNarrative, You |-> <<>>, Them |-> <<>>]

Summaries == {FullSummary, ShortSummary, BareSummary, NumberSummary}

\* an item of the list `parts` that '\n'.join makes the text of: `what` names the
\* line, chunk_id and pos the recorded summary it was taken from (pos = its index
\* in chunk_summaries, 0 for a fixed line), len the characters of narrative in it,
\* trends the "dimension: trend" entries in it
Part(what, chunk_id, pos, len, trends) ==
    [what |-> what, chunk_id |-> chunk_id, pos |-> pos, len |-> len, trends |-> trends]

\* a text returned, and the exception leaving the method
Returned(parts) == [raised |-> FALSE, parts |-> parts]

Raised == [raised |-> TRUE, parts |-> <<>>]

FirstChunkMarker == Returned(<<Part("first chunk", 0, 0, 0, <<>>)>>)

\* '\n'.join(parts) raises TypeError for an item that is not a str
JoinParts(parts) ==
    IF \E k \in 1..Len(parts) : parts[k].what = "not a str" THEN Raised
    ELSE Returned(parts)

\* parts.append(summary['cumulative_summary'])
NarrativePart(summaries, p) ==
    LET cs == summaries[p].summary.cumulative_summary
    IN IF cs.kind = "number" THEN Part("not a str", summaries[p].chunk_id, p, 0, <<>>)
       ELSE Part("narrative", summaries[p].chunk_id, p, cs.len, <<>>)

\* summary.get('cumulative_summary') is true: a non-empty text or a number
HasNarrative(summaries, p) ==
    LET cs == summaries[p].summary.cumulative_summary
    IN cs.kind = "number" \/ (cs.kind = "text" /\ cs.len > 0)

\* the "dimension: trend" entries of the first n dimensions, from the k-th on,
\* whose trend is present and not 'stable'
RECURSIVE TrendEntries(_, _, _)
TrendEntries(you, n, k) ==
    IF k > n THEN <<>>
    ELSE (IF you[Dimensions[k]] \notin {"absent", "stable"}
          THEN <<[dim |-> Dimensions[k], trend |-> you[Dimensions[k]]]>> ELSE <<>>)
         \o TrendEntries(you, n, k + 1)

Last(s) == s[Len(s)]

\* _detailed_summary(summaries); prev holds the positions of the summaries given
RECURSIVE DetailedParts(_, _, _)
DetailedParts(summaries, prev, k) ==
    IF k > Len(prev) THEN <<>>
    ELSE <<Part("chunk header", summaries[prev[k]].chunk_id, prev[k], 0, <<>>)>>
         \o (IF summaries[prev[k]].summary.cumulative_summary.kind # "absent"
             THEN <<NarrativePart(summaries, prev[k])>> ELSE <<>>)
         \o DetailedParts(summaries, prev, k + 1)

_detailed_summary_LatestOnly(summaries, prev) ==
    JoinParts(<<Part("header", 0, 0, 0, <<>>)>> \o DetailedParts(summaries, <<Last(prev)>>, 1))

_detailed_summary(summaries, prev) ==
    JoinParts(<<Part("header", 0, 0, 0, <<>>)>> \o DetailedParts(summaries, prev, 1))

\* the lines "  - Dimension: trend" of _medium_compression_summary
RECURSIVE TrendLines(_, _, _, _)
TrendLines(entries, chunk_id, p, k) ==
    IF k > Len(entries) THEN <<>>
    ELSE <<Part("trend line", chunk_id, p, 0, <<entries[k]>>)>>
         \o TrendLines(entries, chunk_id, p, k + 1)

\* _medium_compression_summary(summaries)
_medium_compression_summary(summaries, prev) ==
    LET p == Last(prev)
        latest == summaries[p].summary
        id == summaries[p].chunk_id
    IN JoinParts(
         <<Part("header", 0, 0, 0, <<>>)>>
         \o (IF latest.cumulative_summary.kind # "absent"
             THEN <<Part("overall header", id, p, 0, <<>>), NarrativePart(summaries, p)>>
             ELSE <<>>)
         \o (IF latest.You # <<>>
             THEN <<Part("you header", id, p, 0, <<>>)>>
                  \o TrendLines(TrendEntries(latest.You[1], 3, 1), id, p, 1)
             ELSE <<>>))

\* the length `[:200]` leaves of a text
TruncateLen == 200

Min(a, b) == IF a <= b THEN a ELSE b

\* the three sections of _hierarchical_compression_summary
EarlyParts_Untruncated(summaries, early) ==
    IF early = <<>> THEN <<>>
    ELSE <<Part("early header", 0, 0, 0, <<>>)>>
         \o (IF HasNarrative(summaries, Last(early))
             THEN <<NarrativePart(summaries, Last(early))>> ELSE <<>>)

EarlyParts(summaries, early) ==
    IF early = <<>> THEN <<>>
    ELSE <<Part("early header", 0, 0, 0, <<>>)>>
         \o (IF HasNarrative(summaries, Last(early))
             THEN <<Part("narrative", summaries[Last(early)].chunk_id, Last(early),
                         Min(summaries[Last(early)].summary.cumulative_summary.len,
                             TruncateLen), <<>>)>>
             ELSE <<>>)

MiddleParts(summaries, middle) ==
    IF middle = <<>> THEN <<>>
    ELSE LET p == Last(middle)
             you == summaries[p].summary.You
             you_trends == IF you = <<>> THEN <<>> ELSE TrendEntries(you[1], 2, 1)
         IN <<Part("middle header", 0, 0, 0, <<>>)>>
            \o (IF you_trends # <<>>
                THEN <<Part("you trends", summaries[p].chunk_id, p, 0, you_trends)>>
                ELSE <<>>)

RecentParts(summaries, recent) ==
    IF recent = <<>> THEN <<>>
    ELSE <<Part("recent header", 0, 0, 0, <<>>)>>
         \o (IF HasNarrative(summaries, Last(recent))
             THEN <<NarrativePart(summaries, Last(recent))>> ELSE <<>>)

\* _hierarchical_compression_summary(summaries, current_chunk): slicing the
\* number of the last early summary raises TypeError
_hierarchical_compression_summary(summaries, prev, current_chunk) ==
    LET early == SelectSeq(prev, LAMBDA p : summaries[p].chunk_id <= 3)
        middle == SelectSeq(prev, LAMBDA p : /\ 3 < summaries[p].chunk_id
                                             /\ summaries[p].chunk_id <= current_chunk - 3)
        recent == SelectSeq(prev, LAMBDA p : summaries[p].chunk_id > current_chunk - 3)
    IN IF /\ early # <<>>
          /\ summaries[Last(early)].summary.cumulative_summary.kind = "number"
       THEN Raised
       ELSE JoinParts(<<Part("header", 0, 0, 0, <<>>)>>
                      \o EarlyParts(summaries, early)
                      \o MiddleParts(summaries, middle)
                      \o RecentParts(summaries, recent))

\* `previous = [s for s in self.chunk_summaries if s['chunk_id'] < current_chunk_id]`
PreviousOf_All(summaries, current_chunk_id) == [p \in 1..Len(summaries) |-> p]

PreviousOf(summaries, current_chunk_id) ==
    SelectSeq([p \in 1..Len(summaries) |-> p],
              LAMBDA p : summaries[p].chunk_id < current_chunk_id)

\* get_compressed_summary(current_chunk_id) on the recorded chunk_summaries
get_compressed_summary(summaries, current_chunk_id) ==
    LET previous == PreviousOf(summaries, current_chunk_id)
    IN IF current_chunk_id <= 1 THEN FirstChunkMarker
       ELSE IF previous = <<>> THEN FirstChunkMarker
       ELSE IF current_chunk_id <= 3 THEN _detailed_summary(summaries, previous)
       ELSE IF current_chunk_id <= 6 THEN _medium_compression_summary(summaries, previous)
       ELSE _hierarchical_compression_summary(summaries, previous, current_chunk_id)

\* add_chunk_summary(chunk_id, summary)
add_chunk_summary(summaries, chunk_id, summary) ==
    Append(summaries, [chunk_id |-> chunk_id, summary |-> summary])

\* ---------------------------------------------------------------- Stage2LLMAnalyzer.analyze_conversation

\* self.models, the default of __init__
Models == <<"llama3.2", "qwen2.5:7b-instruct">>

\* the parameter default `max_retries: int = 2` of _analyze_chunk_with_model
analyze_chunk_max_retries == 2

\* most chunks _create_chunks returns for a conversation
MaxChunks == 2

\* most calls of analyze_conversation on one analyzer
MaxCalls == 2

\* the analyses the responses of the models parse to in a run
Stage2Responses == {FullSummary, NumberSummary}

\* the analysis with the chunk_id the response carries (here 1) left in place
Analysis_ResponseChunkId(chunk_id, model_name, summary) ==
    [chunk_id |-> 1, model |-> model_name, summary |-> summary]

\* the analysis _analyze_chunk_with_model returns: the parsed JSON with the
\* metadata added
Analysis(chunk_id, model_name, summary) ==
    [chunk_id |-> chunk_id, model |-> model_name, summary |-> summary]

NoResults == [m \in Range(Models) |-> <<>>]

\* what an inference call of _analyze_chunk_with_model ends in without an analysis:
\*   "raises"       - ollama.generate (or response['response']) raises
\*   "not json"     - json.loads raises JSONDecodeError, _parse_json_response gives None
\*   "falsy json"   - the text parses to {}, [], null, 0, false or "": `if analysis` is false
\*   "not a dict"   - the text parses to a true value that is no object: the item
\*                    assignment `analysis['model'] = ...` raises TypeError
FailureKinds == {"raises", "not json", "falsy json", "not a dict"}

\* the responses json.loads accepts
ParsesAsJson == {"falsy json", "not a dict", "object"}

\* no call of _analyze_chunk_with_model yet
NoPair == [chunk_id |-> 0, model |-> "", responses |-> <<>>, outcome |-> "running",
           returned |-> <<>>]

\* the history of the call after the inference call number att + 1 (`attempt` = att)
\* ended as `kind`; returned is <<>> or <<the analysis returned>>
LogAttempt(log, att, chunk_id, model_name, kind, returned) ==
    [chunk_id |-> chunk_id,
     model |-> model_name,
     responses |-> Append(IF att = 0 THEN <<>> ELSE log.responses, kind),
     outcome |-> IF kind = "object" THEN "analysis"
                 ELSE IF att + 1 < analyze_chunk_max_retries THEN "running"
                 ELSE "None",
     returned |-> returned]

\* `if analysis: results[model_name].append(analysis)`
AppendResult(res, model_name, an) == [res EXCEPT ![model_name] = Append(@, an)]

\* the head of `for chunk_idx, chunk in enumerate(chunks)` with another chunk to
\* take: the cumulative summary is fetched and the prompt built; an exception of
\* get_compressed_summary is outside the try and leaves analyze_conversation
ForNextChunk ==
    /\ spc = "for"
    /\ chunk_idx < n_chunks
    /\ LET text == get_compressed_summary(chunk_summaries, chunk_idx + 1)
       IN /\ previous_summary' = text
          /\ spc' = IF text.raised THEN "raised" ELSE "models"
          /\ model_pos' = IF text.raised THEN model_pos ELSE 1
    /\ attempt' = 0
    /\ UNCHANGED <<chunk_summaries, fresh_summaries, n_chunks, chunk_idx, results, calls,
                   pair_log>>
    /\ UNCHANGED notStage2Vars

\* the end of the body of `for model_name in self.models`: the next model, or the
\* next chunk after the last model
AfterModel(pos, idx) == IF pos < Len(Models) THEN idx ELSE idx + 1

\* an attempt of _analyze_chunk_with_model whose response parses to a non-empty
\* JSON object: the analysis is returned, appended to the results of the model
\* and, for the first model, recorded by the summary manager
AttemptParses ==
    /\ spc = "models"
    /\ attempt < analyze_chunk_max_retries
    /\ \E summary \in Stage2Responses :
         LET an == Analysis(chunk_idx + 1, Models[model_pos], summary)
         IN /\ results' = AppendResult(results, Models[model_pos], an)
            /\ pair_log' = LogAttempt(pair_log, attempt, chunk_idx + 1, Models[model_pos],
                                      "object", <<an>>)
            /\ IF model_pos = 1
               THEN /\ chunk_summaries' = add_chunk_summary(chunk_summaries, chunk_idx + 1, an.summary)
                    /\ fresh_summaries' = add_chunk_summary(fresh_summaries, chunk_idx + 1, an.summary)
               ELSE UNCHANGED <<chunk_summaries, fresh_summaries>>
    /\ attempt' = 0
    /\ chunk_idx' = AfterModel(model_pos, chunk_idx)
    /\ model_pos' = IF model_pos < Len(Models) THEN model_pos + 1 ELSE 0
    /\ spc' = IF model_pos < Len(Models) THEN "models" ELSE "for"
    /\ UNCHANGED <<n_chunks, previous_summary, calls>>
    /\ UNCHANGED notStage2Vars

\* an attempt of _analyze_chunk_with_model in which ollama.generate raises or the
\* response is not a non-empty JSON object: the next attempt, or after the last
\* one `return None`, for which analyze_conversation appends nothing
AttemptFails ==
    /\ spc = "models"
    /\ attempt < analyze_chunk_max_retries
    /\ \E kind \in FailureKinds :
         pair_log' = LogAttempt(pair_log, attempt, chunk_idx + 1, Models[model_pos],
                                kind, <<>>)
    /\ IF attempt + 1 < analyze_chunk_max_retries
       THEN /\ attempt' = attempt + 1
            /\ UNCHANGED <<chunk_idx, model_pos, spc>>
       ELSE /\ attempt' = 0
            /\ chunk_idx' = AfterModel(model_pos, chunk_idx)
            /\ model_pos' = IF model_pos < Len(Models) THEN model_pos + 1 ELSE 0
            /\ spc' = IF model_pos < Len(Models) THEN "models" ELSE "for"
    /\ UNCHANGED <<chunk_summaries, fresh_summaries, n_chunks, previous_summary, results, calls>>
    /\ UNCHANGED notStage2Vars

\* the for loop is exhausted: `return results`
ReturnResults ==
    /\ spc = "for"
    /\ chunk_idx >= n_chunks
    /\ spc' = "returned"
    /\ UNCHANGED <<chunk_summaries, fresh_summaries, n_chunks, chunk_idx, previous_summary,
                   model_pos, attempt, results, calls, pair_log>>
    /\ UNCHANGED notStage2Vars

\* analyze_conversation is called again on the same analyzer: `results` is new,
\* self.summary_manager is the one made by __init__
CallAgain ==
    /\ spc \in {"returned", "raised"}
    /\ calls < MaxCalls
    /\ calls' = calls + 1
    /\ n_chunks' \in 0..MaxChunks
    /\ chunk_idx' = 0
    /\ previous_summary' = FirstChunkMarker
    /\ model_pos' = 0
    /\ attempt' = 0
    /\ results' = NoResults
    /\ fresh_summaries' = <<>>
    /\ pair_log' = NoPair
    /\ spc' = "for"
    /\ UNCHANGED chunk_summaries
    /\ UNCHANGED notStage2Vars

NextStage2 == ForNextChunk \/ AttemptParses \/ AttemptFails \/ ReturnResults \/ CallAgain

\* ---------------------------------------------------------------- get_compressed_summary alone

\* the largest chunk_id recorded
MaxChunkId == 6

\* the values of current_chunk_id
CurrentIds == {1, 3, 5, 7, 9}

\* the recorded histories with chunk ids up to n: any ids in ascending order,
\* any analyses
Histories(n) ==
    UNION {LET ids == SortedSeq(S)
           IN {[k \in 1..Len(ids) |-> [chunk_id |-> ids[k], summary |-> f[k]]] :
                  f \in [1..Len(ids) -> Summaries]} : S \in SUBSET (1..n)}

\* the call of get_compressed_summary(chunk_idx + 1), to its return or exception
GetCompressedSummary ==
    /\ spc = "summary"
    /\ previous_summary' = get_compressed_summary(chunk_summaries, chunk_idx + 1)
    /\ spc' = IF previous_summary'.raised THEN "summary raised" ELSE "summary done"
    /\ UNCHANGED <<chunk_summaries, fresh_summaries, n_chunks, chunk_idx, model_pos, attempt,
                   results, calls, pair_log>>
    /\ UNCHANGED notStage2Vars

NextSummary == GetCompressedSummary

\* the largest chunk_id recorded before chunk 6 is analysed
MaxPriorId == 5

\* the values of current_chunk_id of the detailed and the medium regime
RegimeIds == 1..(MaxPriorId + 1)

\* ---------------------------------------------------------------- LLMAnalyzer.analyze_conversation

\* most chunks with dialogue text
MaxDialogues == 2

\* an entry of chunk_data: a chunk with text has a message of one speaker at least
ChunkData ==
    {d \in [has_your_msgs : BOOLEAN, has_their_msgs : BOOLEAN] :
        d.has_your_msgs \/ d.has_their_msgs}

\* the dict _batch_analyze_dialogues builds for a text from the outputs of the models
BatchResult(is_toxic, sentiment) ==
    [personality |-> [holistic_ai |-> [trait |-> "trait", confidence |-> "score"],
                      bert_base |-> [Extroversion |-> "score", Neuroticism |-> "score",
                                     Agreeableness |-> "score",
                                     Conscientiousness |-> "score", Openness |-> "score"]],
     toxicity |-> [martin_ha |-> [is_toxic |-> is_toxic, confidence |-> "score"]],
     sarcasm |-> [is_sarcastic |-> FALSE, confidence |-> "score"],
     sentiment |-> [sentiment |-> sentiment, confidence |-> "score"]]

BatchResults == {BatchResult(t, s) : t \in BOOLEAN, s \in {"POS", "NEG"}}

\* the keys _aggregate_results subscripts each result with, in the order of the reads
AggregateReads ==
    <<<<"personality", "holistic_ai", "trait">>,
      <<"personality", "bert_base">>,
      <<"toxicity", "martin_ha", "is_toxic">>,
      <<"toxicity", "toxicchat", "is_toxic">>,
      <<"sarcasm", "is_sarcastic">>,
      <<"sentiment", "sentiment">>>>

\* r[k1][k2]... finds every key (no KeyError)
RECURSIVE HasPath(_, _)
HasPath(r, path) ==
    IF path = <<>> THEN TRUE
    ELSE Head(path) \in DOMAIN r /\ HasPath(r[Head(path)], Tail(path))

\* _aggregate_results(results): {} for no result, KeyError for a key a result
\* lacks, else the statistics
_aggregate_results(rs) ==
    IF rs = <<>> THEN [raised |-> FALSE, total_analyzed |-> 0, toxic_messages |-> 0]
    ELSE IF \E k \in 1..Len(rs), j \in 1..Len(AggregateReads) : ~HasPath(rs[k], AggregateReads[j])
    THEN [raised |-> TRUE, total_analyzed |-> 0, toxic_messages |-> 0]
    ELSE [raised |-> FALSE,
          total_analyzed |-> Len(rs),
          toxic_messages |->
              Cardinality({k \in 1..Len(rs) : rs[k].toxicity.martin_ha.is_toxic})]

\* all_results = self._batch_analyze_dialogues(...): one result per dialogue
BatchAnalyzeDialogues ==
    /\ apc = "batch"
    /\ all_results' \in [1..Len(chunk_data) -> BatchResults]
    /\ apc' = "aggregate"
    /\ UNCHANGED <<chunk_data, aggregated>>
    /\ UNCHANGED notStage1Vars

\* the results are separated by speaker and aggregated into the dict returned;
\* a KeyError of _aggregate_results leaves analyze_conversation
AggregateResults ==
    /\ apc = "aggregate"
    /\ LET positions == [k \in 1..Len(all_results) |-> k]
           your_results == SelectSeq(positions, LAMBDA k : chunk_data[k].has_your_msgs)
           their_results == SelectSeq(positions, LAMBDA k : chunk_data[k].has_their_msgs)
           yours == _aggregate_results([k \in 1..Len(your_results) |-> all_results[your_results[k]]])
           theirs == _aggregate_results([k \in 1..Len(their_results) |-> all_results[their_results[k]]])
       IN IF yours.raised \/ theirs.raised
          THEN /\ apc' = "raised"
               /\ UNCHANGED aggregated
          ELSE /\ apc' = "returned"
               /\ aggregated' = <<[your_analysis |-> yours, their_analysis |-> theirs]>>
    /\ UNCHANGED <<chunk_data, all_results>>
    /\ UNCHANGED notStage1Vars

NextStage1 == BatchAnalyzeDialogues \/ AggregateResults

\* ---------------------------------------------------------------- specifications

\* _create_chunks is called: the state on entry of its while loop (`chunks = []`,
\* `i = 0`); the other components are idle
InitChunks ==
    /\ messages \in SeqsUpTo(TextLens, MaxMsgs)
    /\ chunk_size \in ChunkSizes
    /\ overlap \in Overlaps
    /\ i = 0
    /\ chunks = <<>>
    /\ cpc = "loop"
    /\ response_text = NoResponse
    /\ validation = NoValidation
    /\ vpc = "idle"
    /\ wk_messages = <<>>
    /\ weeks = <<>>
    /\ week_pos = 0
    /\ week_num = NoWeek
    /\ prompt = build_weekly_prompt(NoWeek, <<>>)
    /\ retry_count = 0
    /\ analysis = <<>>
    /\ prompt_versions = <<>>
    /\ meta_llm_refinement = NoRefinement
    /\ all_analyses = <<>>
    /\ historical_summary = <<>>
    /\ progress_file = <<>>
    /\ chat_calls = 0
    /\ refine_calls = 0
    /\ restarts = 0
    /\ chunk_summaries = <<>>
    /\ fresh_summaries = <<>>
    /\ n_chunks = 0
    /\ chunk_idx = 0
    /\ previous_summary = FirstChunkMarker
    /\ model_pos = 0
    /\ attempt = 0
    /\ results = NoResults
    /\ calls = 0
    /\ spc = "idle"
    /\ chunk_data = <<>>
    /\ all_results = <<>>
    /\ aggregated = <<>>
    /\ apc = "idle"
    /\ wpc = "idle"
    /\ preview_i = 0
    /\ preview_chunks = <<>>
    /\ ppc = "idle"
    /\ refine_log = <<>>
    /\ chat_log = <<>>
    /\ progress_exists = FALSE
    /\ output_file = <<>>
    /\ pair_log = NoPair
    /\ worker_pc = [f \in Futures |-> "idle"]
    /\ worker_result = [f \in Futures |-> <<>>]
    /\ files = [n \in FileNames |-> Absent]
    /\ dual_results = <<>>
    /\ dual_errors = <<>>
    /\ collected = {}
    /\ dpc = "idle"

SpecChunks == InitChunks /\ [][NextChunks]_vars

\* the fairness of a sequential program: the loop takes its next step
SpecChunksFair == SpecChunks /\ WF_vars(NextChunks)

\* add_llm_analysis.py and the preview load the same conversation: _create_chunks
\* and create_chunks are called with the same arguments, those of the scripts or
\* the defaults of _create_chunks; the other components are idle
InitPreview ==
    /\ messages \in ScriptMessages
    /\ \E args \in ScriptArguments : chunk_size = args[1] /\ overlap = args[2]
    /\ i = 0
    /\ chunks = <<>>
    /\ cpc = "loop"
    /\ preview_i = 0
    /\ preview_chunks = <<>>
    /\ ppc = "loop"
    /\ response_text = NoResponse
    /\ validation = NoValidation
    /\ vpc = "idle"
    /\ wk_messages = <<>>
    /\ weeks = <<>>
    /\ week_pos = 0
    /\ week_num = NoWeek
    /\ prompt = build_weekly_prompt(NoWeek, <<>>)
    /\ retry_count = 0
    /\ analysis = <<>>
    /\ prompt_versions = <<>>
    /\ meta_llm_refinement = NoRefinement
    /\ all_analyses = <<>>
    /\ historical_summary = <<>>
    /\ progress_file = <<>>
    /\ chat_calls = 0
    /\ refine_calls = 0
    /\ restarts = 0
    /\ chunk_summaries = <<>>
    /\ fresh_summaries = <<>>
    /\ n_chunks = 0
    /\ chunk_idx = 0
    /\ previous_summary = FirstChunkMarker
    /\ model_pos = 0
    /\ attempt = 0
    /\ results = NoResults
    /\ calls = 0
    /\ spc = "idle"
    /\ chunk_data = <<>>
    /\ all_results = <<>>
    /\ aggregated = <<>>
    /\ apc = "idle"
    /\ wpc = "idle"
    /\ refine_log = <<>>
    /\ chat_log = <<>>
    /\ progress_exists = FALSE
    /\ output_file = <<>>
    /\ pair_log = NoPair
    /\ worker_pc = [f \in Futures |-> "idle"]
    /\ worker_result = [f \in Futures |-> <<>>]
    /\ files = [n \in FileNames |-> Absent]
    /\ dual_results = <<>>
    /\ dual_errors = <<>>
    /\ collected = {}
    /\ dpc = "idle"

SpecPreview == InitPreview /\ [][NextPreview]_vars

\* validate_metrics is called with a response of Responses; the other components are idle
InitValidate ==
    /\ response_text \in Responses
    /\ validation = NoValidation
    /\ vpc = "call"
    /\ messages = <<>>
    /\ chunk_size = 0
    /\ overlap = 0
    /\ i = 0
    /\ chunks = <<>>
    /\ cpc = "idle"
    /\ wk_messages = <<>>
    /\ weeks = <<>>
    /\ week_pos = 0
    /\ week_num = NoWeek
    /\ prompt = build_weekly_prompt(NoWeek, <<>>)
    /\ retry_count = 0
    /\ analysis = <<>>
    /\ prompt_versions = <<>>
    /\ meta_llm_refinement = NoRefinement
    /\ all_analyses = <<>>
    /\ historical_summary = <<>>
    /\ progress_file = <<>>
    /\ chat_calls = 0
    /\ refine_calls = 0
    /\ restarts = 0
    /\ chunk_summaries = <<>>
    /\ fresh_summaries = <<>>
    /\ n_chunks = 0
    /\ chunk_idx = 0
    /\ previous_summary = FirstChunkMarker
    /\ model_pos = 0
    /\ attempt = 0
    /\ results = NoResults
    /\ calls = 0
    /\ spc = "idle"
    /\ chunk_data = <<>>
    /\ all_results = <<>>
    /\ aggregated = <<>>
    /\ apc = "idle"
    /\ wpc = "idle"
    /\ preview_i = 0
    /\ preview_chunks = <<>>
    /\ ppc = "idle"
    /\ refine_log = <<>>
    /\ chat_log = <<>>
    /\ progress_exists = FALSE
    /\ output_file = <<>>
    /\ pair_log = NoPair
    /\ worker_pc = [f \in Futures |-> "idle"]
    /\ worker_result = [f \in Futures |-> <<>>]
    /\ files = [n \in FileNames |-> Absent]
    /\ dual_results = <<>>
    /\ dual_errors = <<>>
    /\ collected = {}
    /\ dpc = "idle"

SpecValidate == InitValidate /\ [][NextValidate]_vars

\* analyze_conversation_weekly is called: the messages are grouped, `all_analyses = []`,
\* `historical_summary = ""`; the other components are idle
InitWeekly ==
    /\ wk_messages \in SeqsUpTo(Days, MaxWeeklyMsgs)
    /\ weeks = group_messages_by_week(wk_messages)
    /\ week_pos = 0
    /\ week_num = NoWeek
    /\ prompt = build_weekly_prompt(NoWeek, <<>>)
    /\ retry_count = 0
    /\ analysis = <<>>
    /\ prompt_versions = <<>>
    /\ meta_llm_refinement = NoRefinement
    /\ all_analyses = <<>>
    /\ historical_summary = <<>>
    /\ progress_file = <<>>
    /\ chat_calls = 0
    /\ refine_calls = 0
    /\ restarts = 0
    /\ chunk_summaries = <<>>
    /\ fresh_summaries = <<>>
    /\ n_chunks = 0
    /\ chunk_idx = 0
    /\ previous_summary = FirstChunkMarker
    /\ model_pos = 0
    /\ attempt = 0
    /\ results = NoResults
    /\ calls = 0
    /\ spc = "idle"
    /\ chunk_data = <<>>
    /\ all_results = <<>>
    /\ aggregated = <<>>
    /\ apc = "idle"
    /\ wpc = "for"
    /\ messages = <<>>
    /\ chunk_size = 0
    /\ overlap = 0
    /\ i = 0
    /\ chunks = <<>>
    /\ cpc = "idle"
    /\ response_text = NoResponse
    /\ validation = NoValidation
    /\ vpc = "idle"
    /\ preview_i = 0
    /\ preview_chunks = <<>>
    /\ ppc = "idle"
    /\ refine_log = <<>>
    /\ chat_log = <<>>
    /\ progress_exists = FALSE
    /\ output_file = <<>>
    /\ pair_log = NoPair
    /\ worker_pc = [f \in Futures |-> "idle"]
    /\ worker_result = [f \in Futures |-> <<>>]
    /\ files = [n \in FileNames |-> Absent]
    /\ dual_results = <<>>
    /\ dual_errors = <<>>
    /\ collected = {}
    /\ dpc = "idle"

SpecWeekly == InitWeekly /\ [][NextWeekly]_vars

\* the same run with interruptions and restarts of main
SpecWeeklyRestart == InitWeekly /\ [][NextWeeklyRestart]_vars

\* main from its call of analyze_conversation_weekly to its end, with interruptions
SpecMain == InitWeekly /\ [][NextMain]_vars

\* analyze_conversation is called on an analyzer as __init__ made it, the chunks
\* created; the other components are idle
InitStage2 ==
    /\ chunk_summaries = <<>>
    /\ fresh_summaries = <<>>
    /\ n_chunks \in 0..MaxChunks
    /\ chunk_idx = 0
    /\ previous_summary = FirstChunkMarker
    /\ model_pos = 0
    /\ attempt = 0
    /\ results = NoResults
    /\ calls = 1
    /\ spc = "for"
    /\ messages = <<>>
    /\ chunk_size = 0
    /\ overlap = 0
    /\ i = 0
    /\ chunks = <<>>
    /\ cpc = "idle"
    /\ response_text = NoResponse
    /\ validation = NoValidation
    /\ vpc = "idle"
    /\ wk_messages = <<>>
    /\ weeks = <<>>
    /\ week_pos = 0
    /\ week_num = NoWeek
    /\ prompt = build_weekly_prompt(NoWeek, <<>>)
    /\ retry_count = 0
    /\ analysis = <<>>
    /\ prompt_versions = <<>>
    /\ meta_llm_refinement = NoRefinement
    /\ all_analyses = <<>>
    /\ historical_summary = <<>>
    /\ progress_file = <<>>
    /\ chat_calls = 0
    /\ refine_calls = 0
    /\ restarts = 0
    /\ wpc = "idle"
    /\ chunk_data = <<>>
    /\ all_results = <<>>
    /\ aggregated = <<>>
    /\ apc = "idle"
    /\ preview_i = 0
    /\ preview_chunks = <<>>
    /\ ppc = "idle"
    /\ refine_log = <<>>
    /\ chat_log = <<>>
    /\ progress_exists = FALSE
    /\ output_file = <<>>
    /\ pair_log = NoPair
    /\ worker_pc = [f \in Futures |-> "idle"]
    /\ worker_result = [f \in Futures |-> <<>>]
    /\ files = [n \in FileNames |-> Absent]
    /\ dual_results = <<>>
    /\ dual_errors = <<>>
    /\ collected = {}
    /\ dpc = "idle"

SpecStage2 == InitStage2 /\ [][NextStage2]_vars

\* get_compressed_summary is called with a current chunk id of CurrentIds on a
\* recorded history of Histories; the other components are idle
InitSummary ==
    /\ chunk_summaries \in Histories(MaxChunkId)
    /\ fresh_summaries = <<>>
    /\ n_chunks = 0
    /\ chunk_idx \in {c - 1 : c \in CurrentIds}
    /\ previous_summary = FirstChunkMarker
    /\ model_pos = 0
    /\ attempt = 0
    /\ results = NoResults
    /\ calls = 0
    /\ spc = "summary"
    /\ messages = <<>>
    /\ chunk_size = 0
    /\ overlap = 0
    /\ i = 0
    /\ chunks = <<>>
    /\ cpc = "idle"
    /\ response_text = NoResponse
    /\ validation = NoValidation
    /\ vpc = "idle"
    /\ wk_messages = <<>>
    /\ weeks = <<>>
    /\ week_pos = 0
    /\ week_num = NoWeek
    /\ prompt = build_weekly_prompt(NoWeek, <<>>)
    /\ retry_count = 0
    /\ analysis = <<>>
    /\ prompt_versions = <<>>
    /\ meta_llm_refinement = NoRefinement
    /\ all_analyses = <<>>
    /\ historical_summary = <<>>
    /\ progress_file = <<>>
    /\ chat_calls = 0
    /\ refine_calls = 0
    /\ restarts = 0
    /\ wpc = "idle"
    /\ chunk_data = <<>>
    /\ all_results = <<>>
    /\ aggregated = <<>>
    /\ apc = "idle"
    /\ preview_i = 0
    /\ preview_chunks = <<>>
    /\ ppc = "idle"
    /\ refine_log = <<>>
    /\ chat_log = <<>>
    /\ progress_exists = FALSE
    /\ output_file = <<>>
    /\ pair_log = NoPair
    /\ worker_pc = [f \in Futures |-> "idle"]
    /\ worker_result = [f \in Futures |-> <<>>]
    /\ files = [n \in FileNames |-> Absent]
    /\ dual_results = <<>>
    /\ dual_errors = <<>>
    /\ collected = {}
    /\ dpc = "idle"

SpecSummary == InitSummary /\ [][NextSummary]_vars

\* get_compressed_summary is called with a current chunk id of the first two
\* regimes on a recorded history of ids up to MaxPriorId; the other components
\* are idle
InitRegimes ==
    /\ chunk_summaries \in Histories(MaxPriorId)
    /\ fresh_summaries = <<>>
    /\ n_chunks = 0
    /\ chunk_idx \in {c - 1 : c \in RegimeIds}
    /\ previous_summary = FirstChunkMarker
    /\ model_pos = 0
    /\ attempt = 0
    /\ results = NoResults
    /\ calls = 0
    /\ spc = "summary"
    /\ messages = <<>>
    /\ chunk_size = 0
    /\ overlap = 0
    /\ i = 0
    /\ chunks = <<>>
    /\ cpc = "idle"
    /\ response_text = NoResponse
    /\ validation = NoValidation
    /\ vpc = "idle"
    /\ wk_messages = <<>>
    /\ weeks = <<>>
    /\ week_pos = 0
    /\ week_num = NoWeek
    /\ prompt = build_weekly_prompt(NoWeek, <<>>)
    /\ retry_count = 0
    /\ analysis = <<>>
    /\ prompt_versions = <<>>
    /\ meta_llm_refinement = NoRefinement
    /\ all_analyses = <<>>
    /\ historical_summary = <<>>
    /\ progress_file = <<>>
    /\ chat_calls = 0
    /\ refine_calls = 0
    /\ restarts = 0
    /\ wpc = "idle"
    /\ chunk_data = <<>>
    /\ all_results = <<>>
    /\ aggregated = <<>>
    /\ apc = "idle"
    /\ preview_i = 0
    /\ preview_chunks = <<>>
    /\ ppc = "idle"
    /\ refine_log = <<>>
    /\ chat_log = <<>>
    /\ progress_exists = FALSE
    /\ output_file = <<>>
    /\ pair_log = NoPair
    /\ worker_pc = [f \in Futures |-> "idle"]
    /\ worker_result = [f \in Futures |-> <<>>]
    /\ files = [n \in FileNames |-> Absent]
    /\ dual_results = <<>>
    /\ dual_errors = <<>>
    /\ collected = {}
    /\ dpc = "idle"

SpecRegimes == InitRegimes /\ [][NextSummary]_vars

\* LLMAnalyzer.analyze_conversation has built chunk_data and is about to analyze
\* the dialogues; the other components are idle
InitStage1 ==
    /\ chunk_data \in SeqsUpTo(ChunkData, MaxDialogues)
    /\ all_results = <<>>
    /\ aggregated = <<>>
    /\ apc = "batch"
    /\ chunk_summaries = <<>>
    /\ fresh_summaries = <<>>
    /\ n_chunks = 0
    /\ chunk_idx = 0
    /\ previous_summary = FirstChunkMarker
    /\ model_pos = 0
    /\ attempt = 0
    /\ results = NoResults
    /\ calls = 0
    /\ spc = "idle"
    /\ messages = <<>>
    /\ chunk_size = 0
    /\ overlap = 0
    /\ i = 0
    /\ chunks = <<>>
    /\ cpc = "idle"
    /\ response_text = NoResponse
    /\ validation = NoValidation
    /\ vpc = "idle"
    /\ wk_messages = <<>>
    /\ weeks = <<>>
    /\ week_pos = 0
    /\ week_num = NoWeek
    /\ prompt = build_weekly_prompt(NoWeek, <<>>)
    /\ retry_count = 0
    /\ analysis = <<>>
    /\ prompt_versions = <<>>
    /\ meta_llm_refinement = NoRefinement
    /\ all_analyses = <<>>
    /\ historical_summary = <<>>
    /\ progress_file = <<>>
    /\ chat_calls = 0
    /\ refine_calls = 0
    /\ restarts = 0
    /\ wpc = "idle"
    /\ preview_i = 0
    /\ preview_chunks = <<>>
    /\ ppc = "idle"
    /\ refine_log = <<>>
    /\ chat_log = <<>>
    /\ progress_exists = FALSE
    /\ output_file = <<>>
    /\ pair_log = NoPair
    /\ worker_pc = [f \in Futures |-> "idle"]
    /\ worker_result = [f \in Futures |-> <<>>]
    /\ files = [n \in FileNames |-> Absent]
    /\ dual_results = <<>>
    /\ dual_errors = <<>>
    /\ collected = {}
    /\ dpc = "idle"

SpecStage1 == InitStage1 /\ [][NextStage1]_vars

\* main of run_stage2_dual.py has loaded the conversation; the output files of an
\* earlier run may be there
InitDual ==
    /\ chunk_data = <<>>
    /\ all_results = <<>>
    /\ aggregated = <<>>
    /\ apc = "idle"
    /\ chunk_summaries = <<>>
    /\ fresh_summaries = <<>>
    /\ n_chunks = 0
    /\ chunk_idx = 0
    /\ previous_summary = FirstChunkMarker
    /\ model_pos = 0
    /\ attempt = 0
    /\ results = NoResults
    /\ calls = 0
    /\ spc = "idle"
    /\ messages = <<>>
    /\ chunk_size = 0
    /\ overlap = 0
    /\ i = 0
    /\ chunks = <<>>
    /\ cpc = "idle"
    /\ response_text = NoResponse
    /\ validation = NoValidation
    /\ vpc = "idle"
    /\ wk_messages = <<>>
    /\ weeks = <<>>
    /\ week_pos = 0
    /\ week_num = NoWeek
    /\ prompt = build_weekly_prompt(NoWeek, <<>>)
    /\ retry_count = 0
    /\ analysis = <<>>
    /\ prompt_versions = <<>>
    /\ meta_llm_refinement = NoRefinement
    /\ all_analyses = <<>>
    /\ historical_summary = <<>>
    /\ progress_file = <<>>
    /\ chat_calls = 0
    /\ refine_calls = 0
    /\ restarts = 0
    /\ wpc = "idle"
    /\ preview_i = 0
    /\ preview_chunks = <<>>
    /\ ppc = "idle"
    /\ refine_log = <<>>
    /\ chat_log = <<>>
    /\ progress_exists = FALSE
    /\ output_file = <<>>
    /\ pair_log = NoPair
    /\ worker_pc = [f \in Futures |-> "idle"]
    /\ worker_result = [f \in Futures |-> <<>>]
    /\ files \in [FileNames -> {Absent, Old}]
    /\ dual_results = <<>>
    /\ dual_errors = <<>>
    /\ collected = {}
    /\ dpc = "main"

SpecDual == InitDual /\ [][NextDual]_vars

\* ---------------------------------------------------------------- claims on _create_chunks

\* the positions 0 .. len(messages)-1
Positions == 0..(Len(messages) - 1)

\* a chunk holds consecutive positions of the input, in source order
IsContiguousRun(chunk) ==
    /\ \A k \in 1..Len(chunk) : chunk[k] \in Positions
    /\ \A k \in 1..(Len(chunk) - 1) : chunk[k + 1] = chunk[k] + 1

\* chunk without its leading messages that are in seen
RECURSIVE DropLeadingSeen(_, _)
DropLeadingSeen(seen, chunk) ==
    IF chunk # <<>> /\ Head(chunk) \in seen
    THEN DropLeadingSeen(seen, Tail(chunk))
    ELSE chunk

\* the first n chunks concatenated, each without its repeated leading messages
RECURSIVE ConcatWithoutRepeats(_, _)
ConcatWithoutRepeats(cs, n) ==
    IF n = 0 THEN <<>>
    ELSE LET before == ConcatWithoutRepeats(cs, n - 1)
         IN before \o DropLeadingSeen(Range(before), cs[n])

\* the estimate of a chunk: the sum of the estimates of its messages with text
ChunkTokens(chunk) == SumSeq([k \in 1..Len(chunk) |-> TokensAt(messages, chunk[k])])

\* the message at position p has text and its own estimate exceeds chunk_size
Oversized(p) == HasText(MsgAt(messages, p)) /\ msg_tokens(MsgAt(messages, p)) > chunk_size

TextCount(chunk) == Cardinality({k \in 1..Len(chunk) : HasText(MsgAt(messages, chunk[k]))})

\* C1: the chunks are contiguous runs of the input in source order, their start
\* positions strictly increase, and on return every input message, with or
\* without text, is in a chunk: the chunks concatenated without their repeated
\* leading messages are the input sequence.
C1_ChunksReconstructInput ==
    /\ \A c \in 1..Len(chunks) : chunks[c] # <<>> /\ IsContiguousRun(chunks[c])
    /\ \A c \in 1..(Len(chunks) - 1) : chunks[c][1] < chunks[c + 1][1]
    /\ cpc = "done" =>
        /\ \A p \in Positions : \E c \in 1..Len(chunks) : p \in Range(chunks[c])
        /\ ConcatWithoutRepeats(chunks, Len(chunks)) = [k \in 1..Len(messages) |-> k - 1]

\* a return with several chunks, an overlap between two of them and a message without text
C1_Witness ==
    /\ cpc = "done"
    /\ Len(chunks) >= 3
    /\ \E p \in Positions : ~HasText(MsgAt(messages, p))
    /\ \E c \in 1..(Len(chunks) - 1) : Range(chunks[c]) \cap Range(chunks[c + 1]) # {}
    /\ \E c \in 1..(Len(chunks) - 1) : Range(chunks[c]) \cap Range(chunks[c + 1]) = {}

\* C2: for overlap < chunk_size, on return every message is in at most two chunks,
\* the two are consecutive, and no chunk holds only messages of the chunk before it.
C2_OnlyDeclaredOverlap ==
    (cpc = "done" /\ overlap < chunk_size) =>
        /\ \A p \in Positions :
             LET holders == {c \in 1..Len(chunks) : p \in Range(chunks[c])}
             IN /\ Cardinality(holders) <= 2
                /\ \A c, d \in holders : c - d \in {-1, 0, 1}
        /\ \A c \in 2..Len(chunks) : ~(Range(chunks[c]) \subseteq Range(chunks[c - 1]))

\* C3: the loop terminates; every iteration advances the cursor by at least 1,
\* at most len(messages) chunks are produced and every produced chunk is non-empty.
C3_ForwardProgress ==
    /\ <>(cpc = "done")
    /\ [](/\ Len(chunks) <= Len(messages)
          /\ Len(chunks) <= i
          /\ \A c \in 1..Len(chunks) : chunks[c] # <<>>)
    /\ [][(cpc = "loop" /\ i < Len(messages)) =>
              (i' >= i + 1 /\ Len(chunks') = Len(chunks) + 1)]_vars

\* a return for an overlap budget that is no smaller than the chunk budget, a chunk
\* budget below a single message, and a message without text
C3_Witness ==
    /\ cpc = "done"
    /\ overlap >= chunk_size
    /\ Len(messages) >= 3
    /\ Len(chunks) = Len(messages)
    /\ \E p \in Positions : Oversized(p)
    /\ \E p \in Positions : ~HasText(MsgAt(messages, p))

\* C4 as stated: an oversized message is never dropped and its chunk holds no other
\* message; every chunk of more than one message has an estimate of at most chunk_size.
C4_OversizedAlone ==
    /\ \A c \in 1..Len(chunks) :
          /\ (\E k \in 1..Len(chunks[c]) : Oversized(chunks[c][k])) => Len(chunks[c]) = 1
          /\ Len(chunks[c]) > 1 => ChunkTokens(chunks[c]) <= chunk_size
    /\ cpc = "done" =>
          \A p \in Positions : Oversized(p) => \E c \in 1..Len(chunks) : p \in Range(chunks[c])

\* C4 amended: an oversized message is never dropped and its chunk holds no other
\* message with text (messages without text, which cost no token, may follow it);
\* every chunk of more than one message with text has an estimate of at most chunk_size.
C4_OversizedAloneAmongText ==
    /\ \A c \in 1..Len(chunks) :
          /\ (\E k \in 1..Len(chunks[c]) : Oversized(chunks[c][k])) => TextCount(chunks[c]) = 1
          /\ TextCount(chunks[c]) > 1 => ChunkTokens(chunks[c]) <= chunk_size
    /\ cpc = "done" =>
          \A p \in Positions : Oversized(p) => \E c \in 1..Len(chunks) : p \in Range(chunks[c])

\* a return where an oversized message shares its chunk with a message without text,
\* and another chunk holds several messages with text
C4_Witness ==
    /\ cpc = "done"
    /\ \E c \in 1..Len(chunks) :
          /\ Oversized(chunks[c][1])
          /\ Len(chunks[c]) > 1
    /\ \E c \in 1..Len(chunks) : TextCount(chunks[c]) > 1

\* ---------------------------------------------------------------- claims on analyze_conversation_weekly

\* C5 as stated: a week whose every attempt fails validation gets exactly
\* max_retries analysis inference calls, never more, and ends with an analysis
\* that is not valid and lists its errors.
C5_AttemptsEqualCeiling ==
    /\ chat_calls <= max_retries
    /\ (wpc = "after" /\ ~analysis[1].validation.is_valid) =>
          /\ chat_calls = max_retries
          /\ analysis[1].validation.errors # <<>>

\* C5 amended: a week whose every attempt fails validation gets exactly
\* max_retries + 1 analysis inference calls (the first attempt and max_retries
\* retries), never more; the loop then stops with retry_count = max_retries and an
\* analysis that is not valid and lists its errors.
C5_AttemptsEqualCeilingPlusOne ==
    /\ chat_calls <= max_retries + 1
    /\ retry_count <= max_retries
    /\ (wpc = "after" /\ ~analysis[1].validation.is_valid) =>
          /\ chat_calls = max_retries + 1
          /\ retry_count = max_retries
          /\ analysis[1].validation.errors # <<>>
          /\ \A k \in 1..Len(prompt_versions) : ~prompt_versions[k].validation_passed

\* the loop has stopped on a week of which every attempt failed validation
C5_Witness ==
    /\ wpc = "after"
    /\ ~analysis[1].validation.is_valid
    /\ chat_calls = max_retries + 1
    /\ Len(prompt_versions) = max_retries + 1

\* C6: a week whose retries are exhausted is still appended, flagged not valid with
\* its errors, and the loop goes on: between weeks the results hold one analysis per
\* week taken so far, and on return one per week bucket, in ascending week order.
C6_EveryWeekKept ==
    /\ wpc \in {"for", "returned"} =>
          /\ Len(all_analyses) = week_pos
          /\ \A k \in 1..Len(all_analyses) :
                /\ all_analyses[k].week_number = SortedWeeks(weeks)[k]
                /\ ~all_analyses[k].validation.is_valid =>
                      /\ all_analyses[k].validation.errors # <<>>
                      /\ ~all_analyses[k].final_prompt_worked
    /\ wpc = "returned" =>
          /\ Len(all_analyses) = Cardinality(DOMAIN weeks)
          /\ \A k \in 1..(Len(all_analyses) - 1) :
                all_analyses[k].week_number < all_analyses[k + 1].week_number

\* a return after a first week whose retries were exhausted and a valid second week
C6_Witness ==
    /\ wpc = "returned"
    /\ Len(all_analyses) = 2
    /\ ~all_analyses[1].validation.is_valid
    /\ all_analyses[1].retry_count = max_retries
    /\ all_analyses[2].validation.is_valid

\* ---------------------------------------------------------------- claims on validate_metrics

AllSections(text) == text.sections = Range(RequiredSections)

\* the score and the label of one speaker block contradict the tone rule
BlockMismatch(b) ==
    /\ b.score # NoScore
    /\ b.tone # NoTone
    /\ \/ b.score >= HighThreshold /\ Upper(b.tone) \notin PositiveLabels
       \/ b.score <= LowThreshold /\ Upper(b.tone) \notin NegativeLabels

\* the errors of the tone rule about a speaker
ToneErrors(v, who) ==
    {k \in 1..Len(v.errors) :
        /\ v.errors[k].about = who
        /\ v.errors[k].msg \in {"score suggests POSITIVE but tone differs",
                                "score suggests NEGATIVE but tone differs"}}

\* a response in the layout of the prompt: a YOU block, then a THEM block, each
\* with a score in 0..100 and a label that agrees with it
WellFormedBlocks(text) ==
    /\ Len(text.blocks) = 2
    /\ text.blocks[1].who = "YOU"
    /\ text.blocks[2].who = "THEM"
    /\ \A k \in 1..2 :
          /\ text.blocks[k].score \in 0..100
          /\ text.blocks[k].tone # NoTone
          /\ ~BlockMismatch(text.blocks[k])

\* C7: a response is not valid whenever a speaker's score is >= 70 with a label
\* other than POSITIVE / VERY POSITIVE, or <= 40 with a label other than NEGATIVE /
\* VERY NEGATIVE; with all sections, 20 with POSITIVE is not valid and 85 with
\* POSITIVE is valid; a score strictly between 40 and 70 gives no tone error.
C7_ScoreToneConsistency ==
    vpc = "done" =>
        /\ (\E k \in 1..Len(response_text.blocks) : BlockMismatch(response_text.blocks[k]))
              => ~validation.is_valid
        /\ (/\ AllSections(response_text)
            /\ WellFormedBlocks(response_text)
            /\ response_text.blocks[1].score = 85
            /\ response_text.blocks[1].tone = "POSITIVE") => validation.is_valid
        /\ \A who \in Speakers :
              (/\ \E k \in 1..Len(response_text.blocks) : response_text.blocks[k].who = who
               /\ \A k \in 1..Len(response_text.blocks) :
                     response_text.blocks[k].who = who =>
                        (/\ response_text.blocks[k].score > LowThreshold
                         /\ response_text.blocks[k].score < HighThreshold))
              => ToneErrors(validation, who) = {}

\* C8: is_valid is true exactly when errors is empty; the warnings (too few
\* citations, suspected academic references) never change is_valid, so a response
\* with only those defects is valid and carries warnings.
C8_ValidIffNoErrors ==
    vpc = "done" =>
        /\ validation.is_valid <=> validation.errors = <<>>
        /\ validation.is_valid =
              validate_metrics([response_text EXCEPT !.citations = MinCitations,
                                                     !.academic = FALSE]).is_valid
        /\ (/\ AllSections(response_text)
            /\ WellFormedBlocks(response_text)
            /\ (response_text.citations < MinCitations \/ response_text.academic))
              => (validation.is_valid /\ validation.warnings # <<>>)

\* a response with both warning defects and no other is validated
C8_Witness ==
    /\ vpc = "done"
    /\ AllSections(response_text)
    /\ WellFormedBlocks(response_text)
    /\ response_text.citations < MinCitations
    /\ response_text.academic
    /\ validation.is_valid
    /\ Len(validation.warnings) = 2

\* the 'Missing required section' errors about a section
MissingErrors(v, section) ==
    {k \in 1..Len(v.errors) :
        v.errors[k] = [msg |-> "Missing required section", about |-> section]}

\* C9: for each of the seven required sections, a response that lacks it is not
\* valid and has exactly one 'Missing required section' error for it, whatever
\* else it contains; a section that is present has none.
C9_MissingSectionIsError ==
    vpc = "done" =>
        \A k \in 1..Len(RequiredSections) :
            IF RequiredSections[k] \notin response_text.sections
            THEN /\ ~validation.is_valid
                 /\ Cardinality(MissingErrors(validation, RequiredSections[k])) = 1
            ELSE MissingErrors(validation, RequiredSections[k]) = {}

\* a response lacking the last section and another one, otherwise without defect
C9_Witness ==
    /\ vpc = "done"
    /\ Len(RequiredSections) = 7
    /\ "RELATIONSHIP EVOLUTION" \notin response_text.sections
    /\ Cardinality(response_text.sections) = 5
    /\ WellFormedBlocks(response_text)
    /\ Len(validation.errors) = 2

\* C10: a response is not valid when a sentiment score is not a number within
\* 0..100: a speaker block whose Positive score is above 100 (150/100) makes the
\* response not valid, also with a POSITIVE label and all sections present.
C10_ScoreInRange ==
    vpc = "done" =>
        \A k \in 1..Len(response_text.blocks) :
            (/\ response_text.blocks[k].score # NoScore
             /\ response_text.blocks[k].score \notin 0..100) => ~validation.is_valid

\* a response with nothing the checks look for: no section name, no score, no label
Malformed(text) ==
    /\ text.sections = {}
    /\ \A k \in 1..Len(text.blocks) :
          text.blocks[k].score = NoScore /\ text.blocks[k].tone = NoTone

\* C11: validate_metrics returns for every response text (it never raises); for
\* the empty text and a text with no section, no score and no tone label the
\* result is not valid with a non-empty errors list; the call changes no state
\* but its result.
C11_NeverRaisesOnMalformed ==
    /\ [](vpc # "raised")
    /\ []((vpc = "done" /\ Malformed(response_text))
            => (~validation.is_valid /\ validation.errors # <<>>))
    /\ [][UNCHANGED <<response_text, notValidateVars>>]_vars

\* ---------------------------------------------------------------- claims on the progress file

\* the weeks completed: all taken between weeks, all but the current one before
\* its first inference call
WeeksCompleted == IF wpc = "for" THEN week_pos ELSE week_pos - 1

\* after a week has completed and before the first inference call of the next
BetweenWeeks ==
    /\ wpc = "for" \/ (wpc = "while" /\ chat_calls = 0)
    /\ WeeksCompleted >= 1

\* C12: after the k-th week completes and before the first inference call of week
\* k+1 the progress file holds exactly the k analyses completed, in processing
\* order, with total_weeks = k and total_weeks_planned = the number of week buckets.
C12_CheckpointHoldsProgress ==
    BetweenWeeks =>
        /\ Len(progress_file) = 1
        /\ progress_file[1].total_weeks = WeeksCompleted
        /\ progress_file[1].total_weeks_planned = Cardinality(DOMAIN weeks)
        /\ progress_file[1].weekly_analyses = all_analyses
        /\ Len(progress_file[1].weekly_analyses) = WeeksCompleted
        /\ \A k \in 1..WeeksCompleted :
              progress_file[1].weekly_analyses[k].week_number = SortedWeeks(weeks)[k]

\* the second of two weeks is about to get its first inference call
C12_Witness ==
    /\ wpc = "while"
    /\ chat_calls = 0
    /\ week_pos = 2
    /\ Len(progress_file) = 1
    /\ progress_file[1].total_weeks = 1
    /\ progress_file[1].total_weeks_planned = 2

\* C13: the write of the progress file is atomic: a crash at any point, also
\* during the write for week k, leaves on disk a complete readable progress file
\* covering at least the weeks before k (weeks 1..k-1), never an empty or
\* cut-short one.
C13_AtomicCheckpoint ==
    (wpc = "crashed" /\ Len(all_analyses) >= 2) =>
        /\ Len(progress_file) = 1
        /\ progress_file[1].total_weeks >= Len(all_analyses) - 1

\* C14: a run restarted with a progress file covering weeks 1..k resumes from it:
\* it issues no inference call for a week the progress file on disk covers, and
\* when it returns, the analyses of the progress file are the first of its result.
C14_ResumesFromCheckpoint ==
    /\ (wpc = "while" /\ chat_calls > 0 /\ Len(progress_file) = 1)
          => week_pos > progress_file[1].total_weeks
    /\ (wpc = "returned" /\ Len(progress_file) = 1)
          => SubSeq(all_analyses, 1, progress_file[1].total_weeks)
                = progress_file[1].weekly_analyses

\* C17: an inference call that raises is handled by the retry loop like a failed
\* validation: the step does not leave analyze_conversation_weekly, it goes on in
\* the loop or after it, and it consumes one retry when retries remain.
C17_InferenceFailureRetried ==
    [][(/\ wpc = "while"
        /\ Len(prompt_versions') = Len(prompt_versions) + 1
        /\ ~prompt_versions'[Len(prompt_versions')].answered)
          => (/\ wpc' \in {"while", "after"}
              /\ retry_count' = IF RetriesRemain(retry_count)
                                THEN retry_count + 1 ELSE retry_count)]_vars

\* ---------------------------------------------------------------- claims on Stage2LLMAnalyzer

\* the chunk being processed
CurrentChunkId == chunk_idx + 1

\* the items of a summary text that were taken from a recorded summary
TakenParts(text) == {k \in 1..Len(text.parts) : text.parts[k].pos > 0}

\* C15: chunks are processed in order: when the prompt of chunk k is built no
\* attempt is under way and every result is of a chunk before k; while chunk k is
\* analyzed the results are of chunks up to k, and every item of the compressed
\* history in its prompt was taken from a recorded analysis with chunk_id < k.
C15_SequentialHistory ==
    /\ spc = "for" =>
          /\ model_pos = 0 /\ attempt = 0
          /\ \A m \in Range(Models) : \A j \in 1..Len(results[m]) :
                results[m][j].chunk_id < CurrentChunkId
    /\ spc = "models" =>
          /\ \A m \in Range(Models) : \A j \in 1..Len(results[m]) :
                results[m][j].chunk_id <= CurrentChunkId
          /\ \A k \in TakenParts(previous_summary) :
                /\ previous_summary.parts[k].chunk_id < CurrentChunkId
                /\ previous_summary.parts[k].pos <= Len(chunk_summaries)
                /\ chunk_summaries[previous_summary.parts[k].pos].chunk_id
                      = previous_summary.parts[k].chunk_id

\* chunk 2 is analyzed with a history in its prompt while the manager also holds
\* a summary recorded for a chunk 2
C15_Witness ==
    /\ spc = "models"
    /\ CurrentChunkId = 2
    /\ TakenParts(previous_summary) # {}
    /\ \E p \in 1..Len(chunk_summaries) : chunk_summaries[p].chunk_id = 2

\* a summary text without the positions of its sources
TextOf(text) ==
    [raised |-> text.raised,
     parts |-> [k \in 1..Len(text.parts) |->
                   [what |-> text.parts[k].what, chunk_id |-> text.parts[k].chunk_id,
                    len |-> text.parts[k].len, trends |-> text.parts[k].trends]]]

\* C16: calls of analyze_conversation on one analyzer do not interfere: the
\* compressed history of every chunk is the one an analyzer made for this call
\* gives on the same responses (and it raises only if that one does).
C16_RunsDoNotInterfere ==
    spc \in {"models", "raised"} =>
        TextOf(previous_summary)
            = TextOf(get_compressed_summary(fresh_summaries, CurrentChunkId))

\* C18: when analyze_conversation returns, the list of every model holds exactly
\* one analysis per chunk, with chunk_id 1..n in order, also for the chunks whose
\* every attempt failed.
C18_NoChunkDropped ==
    spc = "returned" =>
        \A m \in Range(Models) :
            /\ Len(results[m]) = n_chunks
            /\ \A j \in 1..Len(results[m]) : results[m][j].chunk_id = j

\* the inference calls the latest call of _analyze_chunk_with_model has issued
CallsIssued == Len(pair_log.responses)

\* every response before the last call was none of `kinds`
NoCallAfter(kinds) ==
    \A k \in 1..(CallsIssued - 1) : pair_log.responses[k] \notin kinds

\* what holds of _analyze_chunk_with_model whichever responses end its loop:
\* at most max_retries calls; None only after max_retries calls without an
\* analysis; analyze_conversation is left by an exception only when
\* get_compressed_summary raised, and an attempt without an analysis is followed
\* by the next attempt; a returned analysis carries the chunk_id and model of the
\* call and is what the results of the model (and for the first model the
\* summary history) end with
RetryLoop ==
    /\ CallsIssued <= analyze_chunk_max_retries
    /\ pair_log.outcome = "None" =>
          /\ CallsIssued = analyze_chunk_max_retries
          /\ \A k \in 1..CallsIssued : pair_log.responses[k] \in FailureKinds
    /\ spc = "raised" => previous_summary.raised
    /\ (pair_log # NoPair /\ pair_log.outcome = "running") =>
          /\ spc = "models" /\ attempt = CallsIssued
          /\ CurrentChunkId = pair_log.chunk_id /\ Models[model_pos] = pair_log.model
    /\ pair_log.outcome = "analysis" =>
          /\ pair_log.responses[CallsIssued] = "object"
          /\ pair_log.returned[1].chunk_id = pair_log.chunk_id
          /\ pair_log.returned[1].model = pair_log.model
          /\ Last(results[pair_log.model]) = pair_log.returned[1]
          /\ pair_log.model = Models[1] =>
                Last(chunk_summaries) = [chunk_id |-> pair_log.chunk_id,
                                         summary |-> pair_log.returned[1].summary]

\* the entries the summary history got during this call of analyze_conversation
\* are the end of chunk_summaries and have strictly increasing chunk_ids
RunHistoryIncreasing ==
    /\ Len(fresh_summaries) <= Len(chunk_summaries)
    /\ SubSeq(chunk_summaries, Len(chunk_summaries) - Len(fresh_summaries) + 1,
              Len(chunk_summaries)) = fresh_summaries
    /\ \A j \in 1..Len(fresh_summaries) : \A k \in (j + 1)..Len(fresh_summaries) :
          fresh_summaries[j].chunk_id < fresh_summaries[k].chunk_id

\* C30 as stated: for each (chunk, model) pair _analyze_chunk_with_model issues at
\* most max_retries calls, makes no further call after the first response that
\* parses as JSON, returns None only after max_retries failed attempts, lets no
\* inference exception propagate; a returned analysis has the chunk_id of the
\* chunk being processed and the summary history of a run has strictly
\* increasing chunk_ids.
C30_StopsAtFirstJson ==
    /\ RetryLoop
    /\ NoCallAfter(ParsesAsJson)
    /\ RunHistoryIncreasing

\* C30 amended: as above, but the loop stops at the first response that parses to
\* a non-empty JSON object; a response that parses to another JSON value ({}, [],
\* null, a number, a list, a string) is a failed attempt and is followed by the
\* next call like one that is not JSON or an inference call that raises.
C30_StopsAtFirstObject ==
    /\ RetryLoop
    /\ NoCallAfter({"object"})
    /\ RunHistoryIncreasing

\* the first model answered chunk 2 with an empty JSON object and then, on the
\* second call, with an analysis, which is the second entry of the history of
\* this call
C30_Witness ==
    /\ pair_log.responses = <<"falsy json", "object">>
    /\ pair_log.outcome = "analysis"
    /\ pair_log.chunk_id = 2 /\ pair_log.model = Models[1]
    /\ Len(fresh_summaries) = 2
    /\ fresh_summaries[2].chunk_id = 2

\* ---------------------------------------------------------------- claims on get_compressed_summary

\* the items of a text that are a narrative taken from a summary of `ids`
NarrativesFrom(text, ids) ==
    {k \in 1..Len(text.parts) :
        text.parts[k].what = "narrative" /\ text.parts[k].chunk_id \in ids}

\* the number of "dimension: trend" entries of a text
RECURSIVE TrendCount(_, _)
TrendCount(text, k) ==
    IF k > Len(text.parts) THEN 0
    ELSE Len(text.parts[k].trends) + TrendCount(text, k + 1)

\* C19: for a current chunk id >= 7 the text get_compressed_summary returns holds
\* at most one narrative of an early chunk (ids 1..3), cut to 200 characters, no
\* narrative of a middle chunk, at most two trend entries, taken from a middle
\* chunk, and at most one narrative of a recent chunk: at most 7 items, however
\* many summaries are recorded.
C19_BoundedSummary ==
    (spc = "summary done" /\ CurrentChunkId >= 7) =>
        LET text == previous_summary
            early == 1..3
            middle == 4..(CurrentChunkId - 3)
            recent == (CurrentChunkId - 2)..(CurrentChunkId - 1)
        IN /\ Cardinality(NarrativesFrom(text, early)) <= 1
           /\ \A k \in NarrativesFrom(text, early) : text.parts[k].len <= 200
           /\ NarrativesFrom(text, middle) = {}
           /\ Cardinality(NarrativesFrom(text, recent)) <= 1
           /\ Cardinality(NarrativesFrom(text, 1..MaxChunkId)) <= 2
           /\ TrendCount(text, 1) <= 2
           /\ \A k \in 1..Len(text.parts) :
                 text.parts[k].trends # <<>> => text.parts[k].chunk_id \in middle
           /\ Len(text.parts) <= 7

\* a summary for chunk 7 of six recorded summaries that holds a narrative cut to
\* 200 characters, two trend entries and a full narrative
C19_Witness ==
    /\ spc = "summary done"
    /\ CurrentChunkId = 7
    /\ Len(chunk_summaries) = 6
    /\ Len(previous_summary.parts) = 7
    /\ \E k \in NarrativesFrom(previous_summary, 1..3) : previous_summary.parts[k].len = 200
    /\ TrendCount(previous_summary, 1) = 2
    /\ \E k \in NarrativesFrom(previous_summary, 5..6) : previous_summary.parts[k].len = 300

\* the positions in chunk_summaries of the analyses recorded with a chunk_id
\* smaller than id, in the order recorded
RecordedBefore(id) ==
    SelectSeq([p \in 1..Len(chunk_summaries) |-> p],
              LAMBDA p : chunk_summaries[p].chunk_id < id)

\* the narratives of a text in order, each as <<position of its analysis, length>>
NarrativesOf(text) ==
    LET at == SelectSeq([k \in 1..Len(text.parts) |-> k],
                        LAMBDA k : text.parts[k].what = "narrative")
    IN [k \in 1..Len(at) |-> <<text.parts[at[k]].pos, text.parts[at[k]].len>>]

\* the full narratives of the analyses at the positions `prior` that have one
FullNarratives(prior) ==
    LET with == SelectSeq(prior,
                    LAMBDA p : chunk_summaries[p].summary.cumulative_summary.kind = "text")
    IN [k \in 1..Len(with) |->
            <<with[k], chunk_summaries[with[k]].summary.cumulative_summary.len>>]

\* the call returns unless a prior analysis holds a cumulative_summary that is not
\* a text, and the text of a call that returned answers the regime of the early
\* chunks
EarlyRegime ==
    /\ (spc = "summary raised" /\ CurrentChunkId <= 3) =>
          \E p \in Range(RecordedBefore(CurrentChunkId)) :
             chunk_summaries[p].summary.cumulative_summary.kind = "number"
    /\ spc = "summary done" =>
        LET prior == RecordedBefore(CurrentChunkId)
        IN /\ (CurrentChunkId <= 1 \/ prior = <<>>) => previous_summary = FirstChunkMarker
           /\ (CurrentChunkId \in 2..3 /\ prior # <<>>) =>
                 /\ NarrativesOf(previous_summary) = FullNarratives(prior)
                 /\ \A k \in 1..(Len(prior) - 1) :
                       chunk_summaries[prior[k]].chunk_id
                          < chunk_summaries[prior[k + 1]].chunk_id
                 /\ \A k \in 1..Len(prior) :
                       \E j \in 1..Len(previous_summary.parts) :
                          /\ previous_summary.parts[j].what = "chunk header"
                          /\ previous_summary.parts[j].pos = prior[k]

SpeakerHeaders == [You |-> "you header", Them |-> "them header"]

\* the "Dimension: trend" lines a text holds under the header of a speaker
EmittedTrends(text, speaker) ==
    {text.parts[k].trends[1] : k \in
        {k \in 1..Len(text.parts) :
            /\ text.parts[k].what = "trend line"
            /\ \E h \in 1..(k - 1) :
                  /\ text.parts[h].what = SpeakerHeaders[speaker]
                  /\ \A j \in (h + 1)..(k - 1) : text.parts[j].what = "trend line"}}

\* the dimensions of a speaker in an analysis whose trend is present and not
\* 'stable'; side is the value of the key 'You' or 'Them', <<>> when absent
NonStableTrends(side) ==
    IF side = <<>> THEN {}
    ELSE {[dim |-> d, trend |-> side[1][d]] :
             d \in {d \in Range(Dimensions) : side[1][d] \notin {"absent", "stable"}}}

\* C24: for a current chunk index of 4 to 6 get_compressed_summary emits the
\* narrative of the most recent prior analysis only, no narrative of an older
\* chunk, together with every dimension of both speakers, 'You' and 'Them', whose
\* trend in that analysis is not 'stable', and no dimension whose trend is.
C24_MediumRegimeBothSpeakers ==
    (spc = "summary done" /\ CurrentChunkId \in 4..6
        /\ RecordedBefore(CurrentChunkId) # <<>>) =>
        LET latest == Last(RecordedBefore(CurrentChunkId))
            summary == chunk_summaries[latest].summary
        IN /\ NarrativesOf(previous_summary) = FullNarratives(<<latest>>)
           /\ EmittedTrends(previous_summary, "You") = NonStableTrends(summary.You)
           /\ EmittedTrends(previous_summary, "Them") = NonStableTrends(summary.Them)

\* ---------------------------------------------------------------- claims on LLMAnalyzer

\* C20: analyze_conversation returns the aggregated analyses for every
\* conversation with a dialogue chunk: every key _aggregate_results reads is in
\* each result of _batch_analyze_dialogues, so the aggregation raises no KeyError.
C20_AggregationReadsBatchFields ==
    /\ apc # "raised"
    /\ \A k \in 1..Len(all_results), j \in 1..Len(AggregateReads) :
          HasPath(all_results[k], AggregateReads[j])
    /\ (apc = "returned" /\ chunk_data # <<>>) =>
          /\ Len(aggregated) = 1
          /\ aggregated[1].your_analysis.total_analyzed
                + aggregated[1].their_analysis.total_analyzed >= 1

\* ---------------------------------------------------------------- claims on the chunk parameters of the scripts

\* the messages with text of the conversation
TextMessages == {p \in Positions : HasText(MsgAt(messages, p))}

\* the messages two chunks share
Shared(a, b) == Range(a) \cap Range(b)

\* C21: chunk_size is the number of messages per chunk and overlap the number of
\* messages consecutive chunks share: with chunk_size = 15 and overlap = 5 on a
\* conversation of more than 15 text messages, every chunk of _create_chunks but
\* the last holds 15 messages and each pair of consecutive chunks shares 5.
C21_ChunkSizeCountsMessages ==
    (/\ cpc = "done"
     /\ chunk_size = CHUNK_SIZE
     /\ overlap = OVERLAP
     /\ Cardinality(TextMessages) > 15) =>
        \A k \in 1..(Len(chunks) - 1) :
            /\ Len(chunks[k]) = 15
            /\ Cardinality(Shared(chunks[k], chunks[k + 1])) = 5

\* C27: create_chunks of the preview returns the chunks of
\* LLMAnalyzer._create_chunks: for every message list, chunk_size and overlap the
\* two lists of chunks are the same.
C27_PreviewSameChunks ==
    (cpc = "done" /\ ppc = "done") => preview_chunks = chunks

\* ---------------------------------------------------------------- claims on the retry escalation

\* the calls of refine_prompt_with_llm made before attempt k of the current week
RefinementsBefore(k) == {j \in 1..Len(refine_log) : refine_log[j].before_attempt = k}

\* C22: in the retry sequence of a week the escalation order is fixed: attempt 1
\* has the base instructions and no refinement call; attempt 2 (the first retry)
\* has the strict-format instructions appended and no refinement call; every
\* later attempt is preceded by exactly one refinement call, given the prompt of
\* the week, the output of the attempt before and its validation errors, and the
\* instruction the call returned (the fallback too) is appended to the prompt of
\* that attempt.
C22_EscalationOrder ==
    /\ refine_calls = Len(refine_log)
    /\ \A k \in 1..Len(prompt_versions) :
          LET v == prompt_versions[k]
          IN /\ v.attempt = k
             /\ k = 1 => v.system_prompt = <<"base">> /\ RefinementsBefore(k) = {}
             /\ k = 2 => v.system_prompt = <<"base", "strict format">>
                             /\ RefinementsBefore(k) = {}
             /\ k >= 3 =>
                   /\ Cardinality(RefinementsBefore(k)) = 1
                   /\ \A j \in RefinementsBefore(k) :
                         /\ refine_log[j].original_prompt = prompt
                         /\ refine_log[j].failed_output = chat_log[k - 1]
                         /\ refine_log[j].validation_errors
                               = prompt_versions[k - 1].validation_errors
                         /\ refine_log[j].validation_errors # <<>>
                         /\ refine_log[j].returned \in Refinements
                         /\ v.system_prompt = <<"base", refine_log[j].returned>>
                         /\ v.meta_refinement = refine_log[j].returned

\* a week at its fourth attempt, whose second retry got the instruction of the
\* model and whose third got the fallback of a failed refinement call
C22_Witness ==
    /\ Len(prompt_versions) = 4
    /\ Len(refine_log) = 2
    /\ refine_log[1].returned = "meta-llm instruction"
    /\ refine_log[2].returned = "fallback instruction"
    /\ prompt_versions[4].system_prompt = <<"base", "fallback instruction">>

\* the diagnostics of a finished week hold one record per attempt, numbered from
\* 1, each with its prompt variant and its validation outcome, none but the last
\* passed
OneRecordPerAttempt(an) ==
    LET versions == an.prompt_versions
        n == Len(versions)
    IN /\ n = an.retry_count + 1
       /\ \A k \in 1..n :
             /\ versions[k].attempt = k
             /\ versions[k].answered
             /\ versions[k].system_prompt = SystemPrompt(k - 1, versions[k].meta_refinement)
             /\ versions[k].validation_passed <=> versions[k].validation_errors = <<>>
             /\ k < n => ~versions[k].validation_passed
       /\ an.final_prompt_worked = versions[n].validation_passed
       /\ an.final_prompt_worked = an.validation.is_valid
       /\ versions[n].validation_errors = an.validation.errors

\* C23: after a week finishes its diagnostics hold exactly one record per
\* inference attempt made: prompt_versions is numbered 1..n with
\* n = retry_count + 1, each record carries the prompt variant and the validation
\* outcome of its attempt, only the last record can have validation_passed true,
\* and final_prompt_worked is the outcome of the last record.
C23_OneRecordPerAttempt ==
    /\ \A k \in 1..Len(all_analyses) : OneRecordPerAttempt(all_analyses[k])
    /\ (wpc \in {"dump", "for"} /\ all_analyses # <<>>) =>
          Len(Last(all_analyses).prompt_versions) = chat_calls

\* two finished weeks: the first failed all six attempts, the second passed at
\* its third
C23_Witness ==
    /\ wpc = "for"
    /\ Len(all_analyses) = 2
    /\ Len(all_analyses[1].prompt_versions) = max_retries + 1
    /\ ~all_analyses[1].final_prompt_worked
    /\ Len(all_analyses[2].prompt_versions) = 3
    /\ all_analyses[2].final_prompt_worked
    /\ chat_calls = 3

\* ---------------------------------------------------------------- claims on the historical context

\* how many of the completed weeks a historical context covers: one per
\* "Week n Summary" entry, or the number the compressed summary names
CoveredWeeks(historical) ==
    IF historical # <<>> /\ Last(historical).kind = "compressed"
    THEN Last(historical).weeks
    ELSE Len(historical)

\* C26: the historical context is updated after each completed week so that the
\* prompt of the next week reflects every completed week, the one just finished
\* too: after week k the context covers weeks 1..k, at the head of the loop and in
\* the prompt built from it.
C26_ContextCoversCompletedWeeks ==
    /\ wpc = "for" => CoveredWeeks(historical_summary) = Len(all_analyses)
    /\ wpc = "while" => CoveredWeeks(prompt.historical_context) = Len(all_analyses)

\* ---------------------------------------------------------------- claims on main of the weekly driver

\* the final results file holds the complete results of the run
ResultsWritten == output_file = <<OutputData(all_analyses)>>

\* C29: main deletes the progress file only after the final results file is
\* completely written, and never when the run ends before that: once the first
\* week is appended and its progress file opened, a run that stops at any step
\* leaves the progress file or the complete final results on disk.
C29_ProgressKeptUntilResults ==
    all_analyses # <<>> =>
        /\ progress_exists \/ ResultsWritten
        /\ ~progress_exists => wpc = "done"

\* main ended after two weeks: the results are written, the progress file is gone
C29_Witness ==
    /\ wpc = "done"
    /\ Len(all_analyses) = 2
    /\ ResultsWritten
    /\ ~progress_exists

\* ---------------------------------------------------------------- claims on main of run_stage2_dual.py

\* the workers that have finished
Finished == {f \in Futures : worker_pc[f] \in {"returned", "raised"}}

\* the model names main submitted
SubmittedModels == {SubmittedModel(f) : f \in Futures}

\* every file a worker touched is the output file of its own model, and the file
\* of a worker that returned holds what that worker dumped
OwnFileOnly ==
    /\ \A n \in FileNames : \A f \in Futures :
          files[n].by = f => n = output_json(SubmittedModel(f))
    /\ \A f \in Futures :
          worker_pc[f] = "returned" =>
              files[output_json(SubmittedModel(f))]
                  = Written(f, "complete", worker_result[f])

\* C28: whatever the interleaving of the two workers and whichever of them fail,
\* the two output file names differ and each worker writes only its own file;
\* no model name is ever in both results and errors, the result of a collected
\* worker that returned stays in results, and when main is done every model
\* name is in exactly one of results and errors (together two entries).
C28_WorkersIsolated ==
    /\ output_json(ModelLlama) # output_json(ModelQwen)
    /\ OwnFileOnly
    /\ DOMAIN dual_results \cap DOMAIN dual_errors = {}
    /\ DOMAIN dual_results \cup DOMAIN dual_errors
          = {SubmittedModel(f) : f \in collected}
    /\ \A f \in collected :
          worker_pc[f] = "returned" =>
              /\ SubmittedModel(f) \in DOMAIN dual_results
              /\ dual_results[SubmittedModel(f)] = worker_result[f][1]
    /\ dpc = "done" =>
          /\ Finished = Futures
          /\ \A name \in SubmittedModels :
                (name \in DOMAIN dual_results) # (name \in DOMAIN dual_errors)
          /\ Cardinality(DOMAIN dual_results) + Cardinality(DOMAIN dual_errors) = 2

\* main is done after the worker of qwen2.5:7b failed while writing its file
\* and the worker of llama3.2 returned: its result is in results and its file is
\* complete
C28_Witness ==
    /\ dpc = "done"
    /\ worker_pc[future_qwen] = "raised"
    /\ files[output_json(ModelQwen)].state = "partial"
    /\ worker_pc[future_llama] = "returned"
    /\ DOMAIN dual_results = {ModelLlama}
    /\ DOMAIN dual_errors = {ModelQwen}
    /\ files[output_json(ModelLlama)].state = "complete"

====
